---- MODULE Spec2Model ----
(***************************************************************************)
(* ChemLit Extractor: article registration (ArticleService and the unified *)
(* creation endpoint), the relational store behind ArticleCRUD/AuthorCRUD  *)
(* and the CrossRef rate limiter.                                          *)
(*                                                                         *)
(* Strings are sequences of one-character strings so that strip, lower,    *)
(* prefix removal and startswith are computed as the code computes them.   *)
(* Python's None is the one-element sequence <<"None">>, which no string   *)
(* of characters equals.                                                   *)
(***************************************************************************)
EXTENDS Integers, Sequences, FiniteSets, TLC

None == <<"None">>

\* ------------------------------------------------------------------------
\* Strings
\* ------------------------------------------------------------------------

\* str.lower() on one character (the letters that occur in the inputs)
LowerChar(c) ==
    LET lower == [A |-> "a", B |-> "b", C |-> "c", D |-> "d", E |-> "e",
                  G |-> "g", H |-> "h", I |-> "i", J |-> "j", O |-> "o",
                  P |-> "p", R |-> "r", S |-> "s", T |-> "t", X |-> "x"]
    IN  IF c \in {"A","B","C","D","E","G","H","I","J","O","P","R","S","T","X"}
        THEN lower[c] ELSE c

\* str.lower()
RECURSIVE Lower(_)
Lower(s) == IF s = <<>> THEN <<>> ELSE <<LowerChar(Head(s))>> \o Lower(Tail(s))

\* str.upper() on the letters that occur in stored identifiers; used only to
\* draw the mixed-case DOI values an external record may carry
UpperChar(c) ==
    CASE c = "a" -> "A" [] c = "b" -> "B" [] OTHER -> c

RECURSIVE Upper(_)
Upper(s) == IF s = <<>> THEN <<>> ELSE <<UpperChar(Head(s))>> \o Upper(Tail(s))

IsSpace(c) == c \in {" ", "\t", "\n"}

RECURSIVE LStrip(_)
LStrip(s) == IF s # <<>> /\ IsSpace(Head(s)) THEN LStrip(Tail(s)) ELSE s

RECURSIVE RStrip(_)
RStrip(s) ==
    IF s # <<>> /\ IsSpace(s[Len(s)]) THEN RStrip(SubSeq(s, 1, Len(s) - 1)) ELSE s

\* str.strip()
Strip(s) == RStrip(LStrip(s))

\* str.startswith(prefix)
StartsWith(s, prefix) ==
    Len(s) >= Len(prefix) /\ SubSeq(s, 1, Len(prefix)) = prefix

\* s[len(prefix):]
DropPrefix(s, prefix) == SubSeq(s, Len(prefix) + 1, Len(s))

DoiOrgHttps == <<"h","t","t","p","s",":","/","/","d","o","i",".","o","r","g","/">>
DoiOrgHttp == <<"h","t","t","p",":","/","/","d","o","i",".","o","r","g","/">>
DxDoiOrgHttps ==
    <<"h","t","t","p","s",":","/","/","d","x",".","d","o","i",".","o","r","g","/">>
DxDoiOrgHttp ==
    <<"h","t","t","p",":","/","/","d","x",".","d","o","i",".","o","r","g","/">>
DoiColon == <<"d","o","i",":">>

\* the list `prefixes` of ArticleService._clean_doi, in its order
prefixes == <<DoiOrgHttps, DoiOrgHttp, DxDoiOrgHttps, DxDoiOrgHttp, DoiColon>>

TenDot == <<"1","0",".">>

\* a loop without the break: every prefix that matches is cut in turn
RECURSIVE RemoveEveryPrefix(_, _)
RemoveEveryPrefix(s, i) ==
    IF i > Len(prefixes) THEN s
    ELSE IF StartsWith(s, prefixes[i]) THEN RemoveEveryPrefix(DropPrefix(s, prefixes[i]), 1)
    ELSE RemoveEveryPrefix(s, i + 1)

\* the for/break loop over `prefixes`: the first prefix that matches is cut
RECURSIVE RemoveFirstPrefix(_, _)
RemoveFirstPrefix(s, i) ==
    IF i > Len(prefixes) THEN s
    ELSE IF StartsWith(s, prefixes[i]) THEN DropPrefix(s, prefixes[i])
    ELSE RemoveFirstPrefix(s, i + 1)

\* ArticleService._clean_doi
_clean_doi(doi) ==
    IF doi = None \/ doi = <<>> THEN None
    ELSE LET clean_doi == RemoveFirstPrefix(Lower(Strip(doi)), 1)
         IN  IF ~StartsWith(clean_doi, TenDot) THEN None ELSE clean_doi

\* the DOI field of the pydantic schemas (ArticleRegistrationData,
\* ArticleCreate): str_strip_whitespace, min_length=5, then the validator
\* strip().lower() and the "10." check.  None stands for ValidationError.
MinDoiLength == 5

validate_doi(v) ==
    IF v = None THEN None
    ELSE LET s == Strip(v)
         IN  IF Len(s) < MinDoiLength THEN None
             ELSE IF ~StartsWith(Lower(s), TenDot) THEN None
             ELSE Lower(s)

\* UnifiedArticleCreateRequest.doi: min_length=5 on the raw value (no
\* whitespace stripping in this model class), then strip().lower() and the
\* "10." check.  None stands for a rejected request.
request_validate_doi(v) ==
    IF v = None THEN None
    ELSE IF Len(v) < MinDoiLength THEN None
    ELSE IF ~StartsWith(Lower(Strip(v)), TenDot) THEN None
    ELSE Lower(Strip(v))


\* ------------------------------------------------------------------------
\* Inputs
\* ------------------------------------------------------------------------

DoiA == <<"1","0",".","1","/","a">>
DoiB == <<"1","0",".","1","/","b">>
DoiAPrefixed == <<" ","D","O","I",":","1","0",".","1","/","A"," ">>
NotADoi == <<"n","o","t","-","a","-","d","o","i">>

\* a DOI of the Journal of the American Chemical Society
DoiJacs == <<"1","0",".","1","0","2","1","/","j","a","1">>

\* raw DOI values handed to the entry points
RawDois == {DoiA, DoiB, DoiAPrefixed, NotADoi, <<>>, None}

Jane == [first_name |-> "Jane", last_name |-> "Doe", orcid |-> "None"]
John == [first_name |-> "John", last_name |-> "Roe", orcid |-> "0000-0001"]

\* author lists of a registration (ArticleRegistrationData.authors has at
\* least one entry) and of an external record
AuthorLists == {<<Jane>>, <<Jane, John>>}

\* FileUrls | None: absent, present with every field empty, present with a
\* pdf_url
FileUrlsValues == {"none", "empty", "explicit"}

\* the pairs (download_files, file_urls) of a call
DownloadArgs == {<<FALSE, "none">>, <<FALSE, "explicit">>, <<TRUE, "none">>,
                 <<TRUE, "empty">>, <<TRUE, "explicit">>}

\* what the file downloader does when it is called
EngineOutcomes == {"ok", "fail", "raise"}

\* what CrossRefService.fetch_and_convert_article does
CrossRefOutcomes == {"found", "not_found", "error"}

Procs == {"p1", "p2"}

\* callers of one CrossRefClient
Callers == {"c1", "c2"}

\* one caller at a time: every input, a few calls in a row
MaxCalls == 3

Sequential == [procs |-> {"p1"}, dois |-> RawDois, args |-> DownloadArgs,
               authors |-> AuthorLists, other_doi |-> BOOLEAN,
               journals |-> {<<>>},
               max_calls |-> MaxCalls]

\* one caller registering articles of journals with and without a rule, the
\* external record with a container title, without one, or with the placeholder
Journals == [procs |-> {"p1"}, dois |-> {DoiA, DoiJacs, NotADoi},
             args |-> {<<FALSE, "none">>, <<TRUE, "explicit">>},
             authors |-> {<<Jane>>}, other_doi |-> BOOLEAN,
             journals |-> {<<>>, <<"Organic Letters">>, <<"Unknown Title">>},
             max_calls |-> MaxCalls]

\* two callers at once, registering the same article
MaxRaceCalls == 2

Concurrent == [procs |-> Procs, dois |-> {DoiA, DoiAPrefixed},
               args |-> {<<FALSE, "none">>, <<TRUE, "explicit">>},
               authors |-> {<<Jane, John>>},
               other_doi |-> {FALSE}, journals |-> {<<>>},
               max_calls |-> MaxRaceCalls]

\* ------------------------------------------------------------------------
\* State
\* ------------------------------------------------------------------------

VARIABLES
    articles,     \* table articles: rows [doi, title, authors, author_order]
    authors,      \* table authors: sequence of rows [id, first_name, last_name, orcid]
    author_seq,   \* last value of the authors.id sequence
    pc,           \* per caller: position in the running call
    req,          \* per caller: arguments of the running call
    loc,          \* per caller: local variables of the running call
    out,          \* per caller: what the call returned or raised
    eff,          \* per caller: collaborator calls made by the running call
    pre,          \* per caller: the store as it was when the call started
    calls,        \* number of calls started
    now,          \* the clock (datetime.now()), in ticks
    requests,     \* RateLimiter.requests: the recorded request times
    sent,         \* every request time ever recorded, in order
    rl_pc,        \* per client call: position in the running call
    rl_wait,      \* per client call: the wait_time() it was told to sleep
    rl_out,       \* per client call: the method, the response, the outcome
    compounds,    \* table compounds: sequence of rows [id, article_doi]
    properties,   \* table compound_properties: sequence of rows [id, compound_id]
    compound_seq, \* last value of the compounds.id sequence
    property_seq, \* last value of the compound_properties.id sequence
    last,         \* the last call made on the CRUD classes and what it found
    disk,         \* the files under articles_path: records [dir, name, size]
    http_log,     \* the URLs requested by the download clients, in order
    dl_pc,        \* position in the running download call
    dl_call,      \* arguments and local variables of the running download_file
    multi,        \* the running multi-file download: what is left, the results
    dl_calls,     \* number of download calls started
    conv,         \* the last conversion made: the function, its input, its result
    ad            \* the running auto-discovery: arguments, results, URLs tried

regvars == <<articles, authors, author_seq, pc, req, loc, out, eff, pre, calls>>

rlvars == <<now, requests, sent, rl_pc, rl_wait, rl_out>>

\* the tables owned by an article, and the record of the last CRUD call
cmpvars == <<compounds, properties, compound_seq, property_seq, last>>

\* the file store and the download calls
dlvars == <<disk, http_log, dl_pc, dl_call, multi, dl_calls>>

vars == <<regvars, rlvars, cmpvars, dlvars, conv, ad>>

\* what a registration step, a client step and a download step leave alone
nonregvars == <<rlvars, cmpvars, dlvars, conv, ad>>

nonrlvars == <<regvars, cmpvars, dlvars, conv, ad>>

nondlvars == <<regvars, rlvars, cmpvars, conv, ad>>

nonconv == <<regvars, rlvars, cmpvars, dlvars, ad>>

\* what an auto-discovery step leaves alone, the files on disk apart
nonad == <<regvars, rlvars, cmpvars, conv, http_log, dl_pc, dl_call, multi, dl_calls>>

store == <<articles, authors, author_seq>>

NoReq == [entry |-> "-", raw |-> None, download_files |-> FALSE,
          file_urls |-> "none", authors |-> <<>>, article_data |-> None]

NoLoc == [clean_doi |-> None, article_doi |-> None, title |-> "-",
          journal |-> "None",
          authors_data |-> <<>>, linked |-> <<>>, created |-> FALSE,
          exc |-> "-", fetched |-> "-"]

\* FileDownloadStatus | None
NoDownload == [attempted |-> FALSE, successful_downloads |-> 0,
               failed_downloads |-> 0, download_method |-> "-",
               error_message |-> "-", present |-> FALSE]

FileDownloadStatus(attempted, ok, failed, method, error) ==
    [attempted |-> attempted, successful_downloads |-> ok,
     failed_downloads |-> failed, download_method |-> method,
     error_message |-> error, present |-> TRUE]

NoOut == [kind |-> "none", status |-> "-", operation_type |-> "-",
          source |-> "-", message |-> <<>>, download_status |-> NoDownload,
          article |-> None]

\* ArticleRegistrationResult
ArticleRegistrationResult(status, operation_type, source, message, dl, article) ==
    [kind |-> "result", status |-> status, operation_type |-> operation_type,
     source |-> source, message |-> message, download_status |-> dl,
     article |-> article]

\* an exception that leaves the entry point
Raised(exc) == [NoOut EXCEPT !.kind = "raised", !.status = exc]

\* no CRUD call made yet
NoAuthor == [first_name |-> "-", last_name |-> "-", orcid |-> "None"]

NoLast == [op |-> "-", at |-> 0, doi |-> None, author |-> NoAuthor, id |-> 0,
           result |-> "-", authors |-> <<>>, compound_ids |-> {},
           property_ids |-> {}]

NoEff == [crossref |-> 0, reads |-> 0, writes |-> 0, engine |-> 0, faults |-> 0]

NoPre == [stored |-> FALSE, n_articles |-> 0, author_seq |-> 0, running |-> {}]

\* rows of table articles whose primary key is doi
RowsOf(doi) == {i \in 1..Len(articles) : articles[i].doi = doi}

\* get_by_doi with the wrong case folding: filter(Article.doi == doi.upper())
get_by_doi_upper(doi) ==
    IF RowsOf(Upper(doi)) = {} THEN <<>>
    ELSE <<articles[CHOOSE i \in RowsOf(Upper(doi)) :
                       \A j \in RowsOf(Upper(doi)) : i <= j]>>

\* ArticleCRUD.get_by_doi: filter(Article.doi == doi.lower()).first()
\* (the result is the empty sequence for Python's None, else one row)
get_by_doi(doi) ==
    IF RowsOf(Lower(doi)) = {} THEN <<>>
    ELSE <<articles[CHOOSE i \in RowsOf(Lower(doi)) :
                       \A j \in RowsOf(Lower(doi)) : i <= j]>>

\* the attributes class ArticleCRUD defines
ArticleCRUD == {"create", "get_by_doi", "get_multi", "search", "update",
                "delete", "count"}

\* DownloadResult(success, file_path, error); no path and no error are <<>>
\* and "-"
DownloadResult(success, file_path, error) ==
    [success |-> success, file_path |-> file_path, error |-> error]

\* no download_file call running
NoDl == [url |-> [scheme |-> "-", file |-> <<>>,
                  serves |-> [status |-> "-", body |-> 0]],
         file_type |-> "-", filename |-> <<>>,
         safe_filename |-> <<>>, remaining |-> 0, total_size |-> <<>>,
         result |-> DownloadResult(FALSE, <<>>, "-"),
         pre_disk |-> {}, pre_log |-> 0, caller |-> "-"]

\* no auto-discovery running
NoAd == [pc |-> "idle", doi |-> <<>>, publisher |-> None, url |-> None,
         pub_key |-> <<>>, pdf |-> "none", html |-> "none", i |-> 0,
         tried |-> <<>>]

\* no multi-file download running
NoMulti == [engine |-> "-", requested |-> <<>>, pending |-> <<>>, results |-> <<>>]

Init ==
    /\ articles = <<>>
    /\ authors = <<>>
    /\ author_seq = 0
    /\ pc = [p \in Procs |-> "idle"]
    /\ req = [p \in Procs |-> NoReq]
    /\ loc = [p \in Procs |-> NoLoc]
    /\ out = [p \in Procs |-> NoOut]
    /\ eff = [p \in Procs |-> NoEff]
    /\ pre = [p \in Procs |-> NoPre]
    /\ calls = 0
    /\ now = 0
    /\ requests = <<>>
    /\ sent = <<>>
    /\ rl_pc = [c \in Callers |-> "idle"]
    /\ rl_wait = [c \in Callers |-> 0]
    /\ rl_out = [c \in Callers |-> [call |-> "-", response |-> "-", result |-> "-"]]
    /\ compounds = <<>>
    /\ properties = <<>>
    /\ compound_seq = 0
    /\ property_seq = 0
    /\ last = NoLast
    /\ disk = {}
    /\ http_log = <<>>
    /\ dl_pc = "idle"
    /\ dl_call = NoDl
    /\ multi = NoMulti
    /\ dl_calls = 0
    /\ conv = [op |-> "-"]
    /\ ad = NoAd

\* what a call that starts now finds: whether the DOI it works on is stored,
\* the size of the tables, and the calls that are running
Snapshot(clean_doi) ==
    [stored |-> (clean_doi # None /\ RowsOf(clean_doi) # {}),
     n_articles |-> Len(articles), author_seq |-> author_seq,
     running |-> {q \in Procs : pc[q] \notin {"idle", "done"}}]

BeginWith(p, I, r, l, next, o) ==
    /\ pc[p] = "idle"
    /\ calls < I.max_calls
    /\ calls' = calls + 1
    /\ req' = [req EXCEPT ![p] = r]
    /\ loc' = [loc EXCEPT ![p] = l]
    /\ pre' = [pre EXCEPT ![p] = Snapshot(l.clean_doi)]
    /\ eff' = [eff EXCEPT ![p] = NoEff]
    /\ out' = [out EXCEPT ![p] = o]
    /\ pc' = [pc EXCEPT ![p] = next]
    /\ UNCHANGED store
    /\ UNCHANGED nonregvars

Begin(p, I, r, c, next, o) ==
    BeginWith(p, I, r, [NoLoc EXCEPT !.clean_doi = c], next, o)

Finish(p, o) ==
    /\ out' = [out EXCEPT ![p] = o]
    /\ pc' = [pc EXCEPT ![p] = "done"]

\* the external records CrossRef may hold for a DOI: the DOI field in
\* CrossRef's own capitalisation, or the DOI of another record, authors, and
\* the container titles
CrossRefRecords(doi, I) ==
    {[DOI |-> d, author |-> al, container_title |-> ct] :
        ct \in I.journals,
        d \in {Upper(doi)} \cup (IF TRUE \in I.other_doi THEN {Upper(DoiB)} ELSE {}),
        al \in I.authors}

\* ------------------------------------------------------------------------
\* ArticleService
\* ------------------------------------------------------------------------

\* register_article_from_doi, lines 212-220: clean the DOI, reject it
register_article_from_doi(p, I) ==
    /\ pc[p] = "idle"
    /\ calls < I.max_calls
    /\ \E raw \in I.dois, da \in I.args :
        LET r == [entry |-> "svc_fetch", raw |-> raw, download_files |-> da[1],
                  file_urls |-> da[2], authors |-> <<>>, article_data |-> None]
            clean_doi == _clean_doi(raw)
        IN  IF clean_doi = None
            THEN Begin(p, I, r, None, "done",
                       ArticleRegistrationResult("error", "-", "validation",
                           <<"Invalid DOI format">>, NoDownload, None))
            ELSE Begin(p, I, r, clean_doi, "svc_lookup", NoOut)

\* the caller builds ArticleRegistrationData (the schema validates the DOI and
\* raises ValidationError); register_article_with_data, line 280
register_article_with_data(p, I) ==
    /\ pc[p] = "idle"
    /\ calls < I.max_calls
    /\ \E raw \in I.dois, da \in I.args, al \in I.authors :
        LET doi == validate_doi(raw)
            r == [entry |-> "svc_direct", raw |-> raw, download_files |-> da[1],
                  file_urls |-> da[2], authors |-> al, article_data |-> None]
        IN  IF doi = None
            THEN Begin(p, I, r, None, "done", Raised("ValidationError"))
            ELSE Begin(p, I, r, _clean_doi(doi), "svc_lookup", NoOut)


Bump(p, field) == [eff EXCEPT ![p][field] = @ + 1]

\* a store operation that fails (OperationalError)
Fault(p, field) == [eff EXCEPT ![p][field] = @ + 1, ![p].faults = @ + 1]

\* ArticleService._handle_file_downloads: the FileDownloadStatus it returns
\* and the collaborator calls it makes, for one behaviour of the store
\* (db_ok) and of the file downloader (engine)
_handle_file_downloads(doi, file_urls, db_ok, engine) ==
    IF file_urls = "none"
    THEN [status |-> FileDownloadStatus(FALSE, 0, 0, "none", "No file URLs provided"),
          reads |-> 0, engine |-> 0, faults |-> 0]
    ELSE IF file_urls = "empty" /\ ~db_ok
    THEN \* self.get_article(doi) raises inside the try block
         [status |-> FileDownloadStatus(TRUE, 0, 1, "-", "OperationalError"),
          reads |-> 1, engine |-> 0, faults |-> 1]
    ELSE IF file_urls = "empty" /\ get_by_doi(doi) = <<>>
    THEN \* falls through to download_from_urls with no URL: results == {}
         [status |-> FileDownloadStatus(TRUE, 0, 0, "manual", "-"),
          reads |-> 1, engine |-> 1, faults |-> 0]
    ELSE LET method == IF file_urls = "empty" THEN "automatic" ELSE "manual"
             reads == IF file_urls = "empty" THEN 1 ELSE 0
         IN  CASE engine = "ok" ->
                    [status |-> FileDownloadStatus(TRUE, 1, 0, method, "-"),
                     reads |-> reads, engine |-> 1, faults |-> 0]
               [] engine = "fail" ->
                    [status |-> FileDownloadStatus(TRUE, 0, 1, method, "-"),
                     reads |-> reads, engine |-> 1, faults |-> 0]
               [] OTHER ->
                    [status |-> FileDownloadStatus(TRUE, 0, 1, "-", "engine error"),
                     reads |-> reads, engine |-> 1, faults |-> 0]

\* lines 222-227 and 282-287: ArticleCRUD.get_by_doi outside any try block,
\* then _handle_existing_article when the download is not requested
svc_get_by_doi(p) ==
    /\ pc[p] = "svc_lookup"
    /\ UNCHANGED nonregvars
    /\ UNCHANGED <<store, req, pre, calls>>
    /\ IF loc[p].clean_doi = None
       THEN \* doi.lower() on None
            /\ Finish(p, Raised("AttributeError"))
            /\ UNCHANGED <<loc, eff>>
       ELSE \E db_ok \in BOOLEAN :
            /\ eff' = IF db_ok THEN Bump(p, "reads") ELSE Fault(p, "reads")
            /\ UNCHANGED loc
            /\ IF ~db_ok THEN Finish(p, Raised("OperationalError"))
               ELSE IF get_by_doi(loc[p].clean_doi) # <<>>
               THEN IF req[p].download_files
                    THEN /\ pc' = [pc EXCEPT ![p] = "svc_download"]
                         /\ UNCHANGED out
                    ELSE Finish(p, ArticleRegistrationResult("already_exists",
                             "existed", "database",
                             <<"Article with DOI ", loc[p].clean_doi, " already exists">>,
                             NoDownload, loc[p].clean_doi))
               ELSE /\ pc' = [pc EXCEPT ![p] =
                                 IF req[p].entry = "svc_fetch" THEN "svc_fetch"
                                 ELSE "svc_persist"]
                    /\ UNCHANGED out

\* _handle_existing_article with download_files set (lines 186-198)
_handle_existing_article(p) ==
    /\ pc[p] = "svc_download"
    /\ UNCHANGED nonregvars
    /\ ~loc[p].created
    /\ UNCHANGED <<store, req, pre, calls, loc>>
    /\ \E db_ok \in BOOLEAN, engine \in EngineOutcomes :
        LET d == _handle_file_downloads(loc[p].clean_doi, req[p].file_urls,
                                        db_ok, engine)
        IN  /\ eff' = [eff EXCEPT ![p].reads = @ + d.reads,
                                  ![p].engine = @ + d.engine,
                                  ![p].faults = @ + d.faults]
            /\ Finish(p, ArticleRegistrationResult("already_exists", "existed",
                   "database",
                   <<"Article with DOI ", loc[p].clean_doi, " already exists">>,
                   d.status, loc[p].clean_doi))

\* _fetch_from_crossref and lines 229-237 of register_article_from_doi
_fetch_from_crossref(p, I) ==
    /\ pc[p] = "svc_fetch"
    /\ UNCHANGED nonregvars
    /\ UNCHANGED <<store, req, pre, calls>>
    /\ eff' = Bump(p, "crossref")
    /\ \E r \in CrossRefOutcomes :
        CASE r = "not_found" ->
               /\ Finish(p, ArticleRegistrationResult("not_found", "-", "crossref",
                      <<"Article with DOI ", loc[p].clean_doi, " not found in CrossRef">>,
                      NoDownload, None))
               /\ loc' = [loc EXCEPT ![p].fetched = r]
          [] r = "error" ->
               /\ Finish(p, ArticleRegistrationResult("not_found", "-", "crossref",
                      <<"Failed to fetch from CrossRef: ", "HTTPError">>,
                      NoDownload, None))
               /\ loc' = [loc EXCEPT ![p].fetched = r]
          [] OTHER ->
               \E rec \in CrossRefRecords(loc[p].clean_doi, I) :
                   /\ loc' = [loc EXCEPT ![p].article_doi = Lower(rec.DOI),
                                         ![p].title = "Fetched Title",
                                         ![p].journal =
                                             IF rec.container_title # <<>>
                                             THEN rec.container_title[1]
                                             ELSE "None",
                                         ![p].authors_data = rec.author,
                                         ![p].fetched = r]
                   /\ pc' = [pc EXCEPT ![p] = "svc_persist"]
                   /\ UNCHANGED out


\* lines 239-266 and 289-335: ArticleCRUD.create_with_authors inside the try
\* block.  ArticleCRUD defines no attribute of that name, so the attribute
\* lookup raises AttributeError, which the except clause turns into an error
\* result; the statements after the call are never reached.
svc_create_with_authors(p) ==
    /\ pc[p] = "svc_persist"
    /\ UNCHANGED nonregvars
    /\ "create_with_authors" \notin ArticleCRUD
    /\ UNCHANGED <<store, req, pre, calls, loc, eff>>
    /\ Finish(p, ArticleRegistrationResult("error", "-", "database",
           <<"Failed to save article: ", "AttributeError">>, NoDownload, None))

\* ------------------------------------------------------------------------
\* ArticleCRUD.create and AuthorCRUD.get_or_create
\* ------------------------------------------------------------------------

\* leave ArticleCRUD.create with an exception
CreateRaise(p, exc) ==
    /\ pc' = [pc EXCEPT ![p] = "cr_raised"]
    /\ loc' = [loc EXCEPT ![p].exc = exc]

\* the ORCID lookup only: get_or_create without the lookup by name
FindAuthorByOrcid(author) ==
    LET by_orcid == {i \in 1..Len(authors) :
                        author.orcid # "None" /\ authors[i].orcid = author.orcid}
    IN  IF by_orcid # {}
        THEN <<authors[CHOOSE i \in by_orcid : \A j \in by_orcid : i <= j].id>>
        ELSE <<>>

\* AuthorCRUD.get_or_create, the two queries: the row with the same ORCID if
\* an ORCID is given, else the row with the same names (empty: no such row)
FindAuthor(author) ==
    LET by_orcid == {i \in 1..Len(authors) :
                        author.orcid # "None" /\ authors[i].orcid = author.orcid}
        by_name == {i \in 1..Len(authors) :
                        /\ authors[i].first_name = author.first_name
                        /\ authors[i].last_name = author.last_name}
        first(S) == CHOOSE i \in S : \A j \in S : i <= j
    IN  IF by_orcid # {} THEN <<authors[first(by_orcid)].id>>
        ELSE IF by_name # {} THEN <<authors[first(by_name)].id>>
        ELSE <<>>

\* ArticleCRUD.create, lines 48-51: the existence check
create_check(p) ==
    /\ pc[p] = "cr_check"
    /\ UNCHANGED nonregvars
    /\ UNCHANGED <<store, req, pre, calls, out>>
    /\ \E db_ok \in BOOLEAN :
        /\ eff' = IF db_ok THEN Bump(p, "reads") ELSE Fault(p, "reads")
        /\ IF ~db_ok THEN CreateRaise(p, "OperationalError")
           ELSE IF get_by_doi(loc[p].article_doi) # <<>> THEN CreateRaise(p, "ValueError")
           ELSE /\ pc' = [pc EXCEPT ![p] =
                             IF loc[p].authors_data # <<>> THEN "cr_authors"
                             ELSE "cr_commit"]
                /\ UNCHANGED loc

\* ArticleCRUD.create, lines 56-60: one turn of the loop over the authors;
\* AuthorCRUD.create commits the new author row on its own
get_or_create(p) ==
    /\ pc[p] = "cr_authors"
    /\ UNCHANGED nonregvars
    /\ UNCHANGED <<articles, req, pre, calls, out>>
    /\ LET author == loc[p].authors_data[Len(loc[p].linked) + 1]
           found == FindAuthor(author)
           next(linked) == IF Len(linked) = Len(loc[p].authors_data)
                           THEN "cr_commit" ELSE "cr_authors"
       IN  \E db_ok \in BOOLEAN :
           IF ~db_ok
           THEN /\ CreateRaise(p, "OperationalError")
                /\ eff' = Fault(p, "reads")
                /\ UNCHANGED <<authors, author_seq>>
           ELSE IF found # <<>>
           THEN /\ loc' = [loc EXCEPT ![p].linked = Append(@, found[1])]
                /\ pc' = [pc EXCEPT ![p] = next(Append(loc[p].linked, found[1]))]
                /\ eff' = Bump(p, "reads")
                /\ UNCHANGED <<authors, author_seq>>
           ELSE /\ author_seq' = author_seq + 1
                /\ authors' = Append(authors,
                       [id |-> author_seq + 1, first_name |-> author.first_name,
                        last_name |-> author.last_name, orcid |-> author.orcid])
                /\ loc' = [loc EXCEPT ![p].linked = Append(@, author_seq + 1)]
                /\ pc' = [pc EXCEPT ![p] = next(Append(loc[p].linked, author_seq + 1))]
                /\ eff' = [eff EXCEPT ![p].reads = @ + 1, ![p].writes = @ + 1]

\* Column("author_order", Integer, nullable=False, default=0): the value of
\* a link row that relationship(secondary=article_authors) inserts
author_order_default == 0

HasDuplicates(seq) == \E i, j \in 1..Len(seq) : i # j /\ seq[i] = seq[j]

\* the primary key of table articles (doi) and of table article_authors
\* (article_doi, author_id): what the INSERTs of the commit violate
IntegrityViolation(doi, linked) == RowsOf(doi) # {} \/ HasDuplicates(linked)

\* ArticleCRUD.create, lines 62-65: add, commit, refresh
create_commit(p) ==
    /\ pc[p] = "cr_commit"
    /\ UNCHANGED nonregvars
    /\ UNCHANGED <<authors, author_seq, req, pre, calls, out>>
    /\ \E db_ok \in BOOLEAN :
        IF ~db_ok
        THEN /\ CreateRaise(p, "OperationalError")
             /\ eff' = Fault(p, "writes")
             /\ UNCHANGED articles
        ELSE IF IntegrityViolation(loc[p].article_doi, loc[p].linked)
        THEN /\ CreateRaise(p, "IntegrityError")
             /\ UNCHANGED <<articles, eff>>
        ELSE /\ articles' = Append(articles,
                    [doi |-> loc[p].article_doi, title |-> loc[p].title,
                     journal |-> loc[p].journal,
                     authors |-> loc[p].linked,
                     author_order |-> [n \in 1..Len(loc[p].linked) |->
                                          author_order_default]])
             /\ eff' = Bump(p, "writes")
             /\ loc' = [loc EXCEPT ![p].created = TRUE]
             /\ pc' = [pc EXCEPT ![p] = "cr_returned"]


\* ------------------------------------------------------------------------
\* POST /api/v1/articles/ (create_article_unified)
\* ------------------------------------------------------------------------

\* UnifiedArticleCreateResponse
UnifiedArticleCreateResponse(operation_type, source, message, dl, article) ==
    [kind |-> "response", status |-> "201", operation_type |-> operation_type,
     source |-> source, message |-> message, download_status |-> dl,
     article |-> article]

\* HTTPException(status_code, detail), and the 422 of request validation
HTTPException(status_code, detail) ==
    [NoOut EXCEPT !.kind = "http_error", !.status = status_code,
                  !.message = detail]

\* the endpoint's _handle_file_downloads: DownloadStatus(triggered, file_count)
\* as a FileDownloadStatus whose `attempted` is `triggered`; the downloads
\* themselves run in a background task
EndpointDownloadStatus(file_urls) ==
    IF file_urls = "explicit"
    THEN FileDownloadStatus(TRUE, 0, 0, "background", "-")
    ELSE FileDownloadStatus(FALSE, 0, 0, "-", "No file URLs provided for download")

\* request validation and lines 154-168 / 219-224; `raw` is request.doi in
\* fetch mode and article_data.doi otherwise, and a fetch-mode request
\* (here: one without download_files) may carry an article_data, under the
\* DOI DoiB, as well
create_article_unified(p, I) ==
    /\ pc[p] = "idle"
    /\ calls < I.max_calls
    /\ \E fetch_from_crossref \in BOOLEAN, raw \in I.dois, da \in I.args :
       \E article_data \in IF fetch_from_crossref /\ ~da[1] THEN {None, DoiB}
                            ELSE {None} :
        LET r == [entry |-> IF fetch_from_crossref THEN "ep_fetch" ELSE "ep_direct",
                  raw |-> raw, download_files |-> da[1], file_urls |-> da[2],
                  authors |-> <<>>,
                  article_data |-> IF fetch_from_crossref THEN article_data
                                   ELSE validate_doi(raw)]
            doi == IF fetch_from_crossref THEN request_validate_doi(raw)
                   ELSE validate_doi(raw)
        IN  IF raw = None
            THEN Begin(p, I, r, None, "done",
                       IF fetch_from_crossref
                       THEN HTTPException("400",
                                <<"DOI is required when fetch_from_crossref is True">>)
                       ELSE HTTPException("422", <<"validation error">>))
            ELSE IF doi = None
            THEN Begin(p, I, r, None, "done",
                       HTTPException("422", <<"DOI must start with '10.'">>))
            ELSE Begin(p, I, r, doi, "ep_lookup", NoOut)

\* lines 170-186 and 226-232: the existence check of the endpoint
ep_get_by_doi(p) ==
    /\ pc[p] = "ep_lookup"
    /\ UNCHANGED nonregvars
    /\ UNCHANGED <<store, req, pre, calls>>
    /\ \E db_ok \in BOOLEAN :
        /\ eff' = IF db_ok THEN Bump(p, "reads") ELSE Fault(p, "reads")
        /\ IF ~db_ok
           THEN /\ Finish(p, HTTPException("500",
                       <<"Unexpected error during article creation: ", "OperationalError">>))
                /\ UNCHANGED loc
           ELSE IF get_by_doi(loc[p].clean_doi) # <<>>
           THEN IF req[p].entry = "ep_direct"
                THEN /\ Finish(p, HTTPException("400",
                            <<"Article with DOI ", loc[p].clean_doi, " already exists">>))
                     /\ UNCHANGED loc
                ELSE IF ~req[p].download_files
                THEN /\ Finish(p, UnifiedArticleCreateResponse("existed", "database",
                            <<"Article with DOI ", loc[p].clean_doi, " already exists">>,
                            NoDownload, loc[p].clean_doi))
                     /\ UNCHANGED loc
                ELSE /\ pc' = [pc EXCEPT ![p] = "ep_finish"]
                     /\ loc' = [loc EXCEPT ![p].article_doi = loc[p].clean_doi]
                     /\ UNCHANGED out
           ELSE IF req[p].entry = "ep_direct"
           THEN /\ pc' = [pc EXCEPT ![p] = "cr_check"]
                /\ loc' = [loc EXCEPT ![p].article_doi = loc[p].clean_doi,
                                      ![p].title = "Example Article"]
                /\ UNCHANGED out
           ELSE /\ pc' = [pc EXCEPT ![p] = "ep_fetch"]
                /\ UNCHANGED <<loc, out>>

\* lines 188-200: CrossRefService.fetch_and_convert_article
ep_fetch_and_convert_article(p, I) ==
    /\ pc[p] = "ep_fetch"
    /\ UNCHANGED nonregvars
    /\ UNCHANGED <<store, req, pre, calls>>
    /\ eff' = Bump(p, "crossref")
    /\ \E r \in CrossRefOutcomes :
        CASE r = "not_found" ->
               /\ Finish(p, HTTPException("404",
                      <<"Article with DOI ", loc[p].clean_doi, " not found in CrossRef">>))
               /\ loc' = [loc EXCEPT ![p].fetched = r]
          [] r = "error" ->
               /\ Finish(p, HTTPException("502",
                      <<"Failed to fetch from CrossRef: ", "HTTPError">>))
               /\ loc' = [loc EXCEPT ![p].fetched = r]
          [] OTHER ->
               \E rec \in CrossRefRecords(loc[p].clean_doi, I) :
                   /\ loc' = [loc EXCEPT ![p].article_doi = Lower(rec.DOI),
                                         ![p].title = "Fetched Title",
                                         ![p].journal =
                                             IF rec.container_title # <<>>
                                             THEN rec.container_title[1]
                                             ELSE "None",
                                         ![p].authors_data = rec.author,
                                         ![p].fetched = r]
                   /\ pc' = [pc EXCEPT ![p] = "cr_check"]
                   /\ UNCHANGED out

\* lines 203-214 and 234-237, 271-277: an exception of ArticleCRUD.create
ep_create_failed(p) ==
    /\ pc[p] = "cr_raised"
    /\ req[p].entry \in {"ep_fetch", "ep_direct"}
    /\ UNCHANGED nonregvars
    /\ UNCHANGED <<store, req, pre, calls, loc, eff>>
    /\ Finish(p,
         IF loc[p].exc = "ValueError"
         THEN HTTPException("400",
                  <<"Article with DOI ", loc[p].article_doi, " already exists">>)
         ELSE IF req[p].entry = "ep_fetch"
         THEN HTTPException("502", <<"Failed to fetch from CrossRef: ", loc[p].exc>>)
         ELSE HTTPException("500",
                  <<"Unexpected error during article creation: ", loc[p].exc>>))

\* lines 239-269: file downloads and the response
ep_respond(p) ==
    /\ pc[p] \in {"ep_finish", "cr_returned"}
    /\ req[p].entry \in {"ep_fetch", "ep_direct"}
    /\ UNCHANGED nonregvars
    /\ UNCHANGED <<store, req, pre, calls, loc>>
    /\ LET existed == pc[p] = "ep_finish"
           operation_type == IF existed THEN "existed"
                             ELSE IF req[p].entry = "ep_fetch" THEN "fetched"
                             ELSE "created"
           source == IF ~existed /\ req[p].entry = "ep_fetch" THEN "crossref"
                     ELSE "direct"
           dl == IF req[p].download_files
                 THEN EndpointDownloadStatus(req[p].file_urls) ELSE NoDownload
           message == IF dl.attempted
                      THEN <<operation_type, "1 file downloads triggered">>
                      ELSE <<operation_type>>
       IN  /\ eff' = IF dl.attempted THEN Bump(p, "engine") ELSE eff
           /\ Finish(p, UnifiedArticleCreateResponse(operation_type, source,
                  message, dl, loc[p].article_doi))

\* the caller takes the outcome; the caller's next call starts afresh
Return(p) ==
    /\ pc[p] = "done"
    /\ UNCHANGED nonregvars
    /\ pc' = [pc EXCEPT ![p] = "idle"]
    /\ req' = [req EXCEPT ![p] = NoReq]
    /\ loc' = [loc EXCEPT ![p] = NoLoc]
    /\ out' = [out EXCEPT ![p] = NoOut]
    /\ eff' = [eff EXCEPT ![p] = NoEff]
    /\ pre' = [pre EXCEPT ![p] = NoPre]
    /\ UNCHANGED <<store, calls>>

Step(p, I) ==
    \/ register_article_from_doi(p, I)
    \/ register_article_with_data(p, I)
    \/ svc_get_by_doi(p)
    \/ _handle_existing_article(p)
    \/ _fetch_from_crossref(p, I)
    \/ svc_create_with_authors(p)
    \/ create_article_unified(p, I)
    \/ ep_get_by_doi(p)
    \/ ep_fetch_and_convert_article(p, I)
    \/ create_check(p)
    \/ get_or_create(p)
    \/ create_commit(p)
    \/ ep_create_failed(p)
    \/ ep_respond(p)
    \/ Return(p)

Next == \E p \in Sequential.procs : Step(p, Sequential)

Spec == Init /\ [][Next]_vars

NextRace == \E p \in Concurrent.procs : Step(p, Concurrent)

SpecRace == Init /\ [][NextRace]_vars

NextJournals == \E p \in Journals.procs : Step(p, Journals)

SpecJournals == Init /\ [][NextJournals]_vars

\* ------------------------------------------------------------------------
\* Calls on the CRUD classes (one call at a time, each on its own session)
\* ------------------------------------------------------------------------

\* number of CRUD calls in one behaviour
MaxStoreCalls == 4

JohnInitial == [first_name |-> "J.", last_name |-> "Roe", orcid |-> "0000-0001"]
JaneOrcid == [first_name |-> "Jane", last_name |-> "Doe", orcid |-> "0000-0002"]

\* author data handed to AuthorCRUD: the same person written in several ways
StoreAuthors == {Jane, John, JohnInitial, JaneOrcid}

StoreCalls == [procs |-> {"p1"}, dois |-> {DoiA},
               args |-> {<<FALSE, "none">>},
               authors |-> {<<Jane, John>>, <<JohnInitial, JaneOrcid>>, <<Jane, Jane>>},
               other_doi |-> {FALSE}, journals |-> {<<>>},
               max_calls |-> MaxStoreCalls]

\* an atomic CRUD call starts: no other call is running
StartCall ==
    /\ \A p \in Procs : pc[p] = "idle"
    /\ calls < MaxStoreCalls
    /\ calls' = calls + 1
    /\ UNCHANGED <<pc, req, loc, out, eff, pre>>
    /\ UNCHANGED <<rlvars, dlvars, conv, ad>>

\* the record of a call: its argument, what it returned (a row id) or
\* raised, and the authors table and the ids of the compounds and of the
\* properties as the call found them (a delete records the ids it owns)
Called(op, doi, author, id, result) ==
    [op |-> op, at |-> calls + 1, doi |-> doi, author |-> author, id |-> id,
     result |-> result, authors |-> authors,
     compound_ids |-> {compounds[i].id : i \in 1..Len(compounds)},
     property_ids |-> {properties[i].id : i \in 1..Len(properties)}]

\* ArticleCRUD.create called directly with an ArticleCreate and authors
ArticleCRUD_create(p, I) ==
    /\ pc[p] = "idle"
    /\ calls < I.max_calls
    /\ \E raw \in I.dois, al \in I.authors \cup {<<>>} :
        LET doi == validate_doi(raw)
            r == [entry |-> "crud_create", raw |-> raw, download_files |-> FALSE,
                  file_urls |-> "none", authors |-> al, article_data |-> None]
        IN  /\ doi # None
            /\ BeginWith(p, I, r,
                   [NoLoc EXCEPT !.clean_doi = doi, !.article_doi = doi,
                                 !.title = "Example Article", !.authors_data = al],
                   "cr_check", NoOut)

\* ArticleCRUD.create returns the row or raises
create_return(p) ==
    /\ pc[p] \in {"cr_returned", "cr_raised"}
    /\ req[p].entry = "crud_create"
    /\ UNCHANGED nonregvars
    /\ UNCHANGED <<store, req, pre, calls, loc, eff>>
    /\ Finish(p, IF pc[p] = "cr_returned"
                 THEN [NoOut EXCEPT !.kind = "row", !.article = loc[p].article_doi]
                 ELSE Raised(loc[p].exc))

\* the row AuthorCRUD.create adds
NewAuthor(author) ==
    [id |-> author_seq + 1, first_name |-> author.first_name,
     last_name |-> author.last_name, orcid |-> author.orcid]

\* Author.orcid is unique
OrcidTaken(author) ==
    author.orcid # "None" /\ \E i \in 1..Len(authors) : authors[i].orcid = author.orcid

\* AuthorCRUD.create
AuthorCRUD_create ==
    /\ StartCall
    /\ UNCHANGED <<articles, compounds, properties, compound_seq, property_seq>>
    /\ \E author \in StoreAuthors :
        IF OrcidTaken(author)
        THEN /\ last' = Called("AuthorCRUD.create", None, author, 0, "IntegrityError")
             /\ UNCHANGED <<authors, author_seq>>
        ELSE /\ last' = Called("AuthorCRUD.create", None, author, author_seq + 1, "ok")
             /\ authors' = Append(authors, NewAuthor(author))
             /\ author_seq' = author_seq + 1

\* AuthorCRUD.get_or_create called directly
AuthorCRUD_get_or_create ==
    /\ StartCall
    /\ UNCHANGED <<articles, compounds, properties, compound_seq, property_seq>>
    /\ \E author \in StoreAuthors :
        LET found == FindAuthor(author)
        IN  IF found # <<>>
            THEN /\ last' = Called("AuthorCRUD.get_or_create", None, author,
                                    found[1], "ok")
                 /\ UNCHANGED <<authors, author_seq>>
            ELSE /\ last' = Called("AuthorCRUD.get_or_create", None, author,
                                    author_seq + 1, "ok")
                 /\ authors' = Append(authors, NewAuthor(author))
                 /\ author_seq' = author_seq + 1

\* Compound.id == compound_id (CompoundCRUD.get_by_id)
CompoundRows(compound_id) ==
    {i \in 1..Len(compounds) : compounds[i].id = compound_id}

\* CompoundCRUD.create: the article is looked up with the DOI in lower case,
\* the row keeps the DOI as given and must satisfy the foreign key
CompoundCRUD_create ==
    /\ StartCall
    /\ UNCHANGED <<store, properties, property_seq>>
    /\ \E doi \in {DoiA, Upper(DoiA)} :
        IF get_by_doi(doi) = <<>>
        THEN /\ last' = Called("CompoundCRUD.create", doi, NoAuthor, 0, "ValueError")
             /\ UNCHANGED <<compounds, compound_seq>>
        ELSE IF RowsOf(doi) = {}
        THEN /\ last' = Called("CompoundCRUD.create", doi, NoAuthor, 0, "IntegrityError")
             /\ UNCHANGED <<compounds, compound_seq>>
        ELSE /\ last' = Called("CompoundCRUD.create", doi, NoAuthor,
                               compound_seq + 1, "ok")
             /\ compounds' = Append(compounds,
                                [id |-> compound_seq + 1, article_doi |-> doi])
             /\ compound_seq' = compound_seq + 1

\* CompoundPropertyCRUD.create
CompoundPropertyCRUD_create ==
    /\ StartCall
    /\ UNCHANGED <<store, compounds, compound_seq>>
    /\ \E compound_id \in 1..(compound_seq + 1) :
        IF CompoundRows(compound_id) = {}
        THEN /\ last' = Called("CompoundPropertyCRUD.create", None, NoAuthor,
                               compound_id, "ValueError")
             /\ UNCHANGED <<properties, property_seq>>
        ELSE /\ last' = Called("CompoundPropertyCRUD.create", None, NoAuthor,
                               compound_id, "ok")
             /\ properties' = Append(properties,
                                 [id |-> property_seq + 1, compound_id |-> compound_id])
             /\ property_seq' = property_seq + 1

\* a relationship without cascade: nothing is owned
NoOwnedCompounds(doi) == {}

\* Article.compounds (cascade="all, delete-orphan"): the ids of the compounds
\* of the article
OwnedCompounds(doi) ==
    {compounds[i].id : i \in {j \in 1..Len(compounds) : compounds[j].article_doi = doi}}

\* no cascade from a compound to its properties
NoOwnedProperties(compound_ids) == {}

\* Compound.properties (cascade="all, delete-orphan"): the ids of the
\* properties of the compounds
OwnedProperties(compound_ids) ==
    {properties[i].id :
        i \in {j \in 1..Len(properties) : properties[j].compound_id \in compound_ids}}

\* session.delete of compounds with the cascade to their properties
DeleteCompounds(compound_ids) ==
    /\ compounds' = SelectSeq(compounds, LAMBDA row : row.id \notin compound_ids)
    /\ properties' = SelectSeq(properties,
                        LAMBDA row : row.id \notin OwnedProperties(compound_ids))

\* ArticleCRUD.delete: the article row goes with its links to authors
\* (secondary table) and, by cascade, its compounds and their properties
ArticleCRUD_delete ==
    /\ StartCall
    /\ UNCHANGED <<authors, author_seq, compound_seq, property_seq>>
    /\ \E doi \in {DoiA, Upper(DoiA)} :
        IF get_by_doi(doi) = <<>>
        THEN /\ last' = Called("ArticleCRUD.delete", doi, NoAuthor, 0, "False")
             /\ UNCHANGED <<articles, compounds, properties>>
        ELSE LET db_article == get_by_doi(doi)[1]
                 owned == OwnedCompounds(db_article.doi)
             IN  /\ last' = [Called("ArticleCRUD.delete", db_article.doi, NoAuthor,
                                    0, "True")
                               EXCEPT !.compound_ids =
                                        {compounds[i].id : i \in
                                            {j \in 1..Len(compounds) :
                                                compounds[j].article_doi = db_article.doi}},
                                      !.property_ids =
                                        {properties[i].id : i \in
                                            {j \in 1..Len(properties) :
                                                \E k \in 1..Len(compounds) :
                                                    /\ compounds[k].article_doi = db_article.doi
                                                    /\ properties[j].compound_id = compounds[k].id}}]
                 /\ articles' = SelectSeq(articles, LAMBDA row : row.doi # db_article.doi)
                 /\ DeleteCompounds(owned)

\* ArticleCRUD.update: the fields of ArticleUpdate, none of them a key
ArticleCRUD_update ==
    /\ StartCall
    /\ UNCHANGED <<authors, author_seq, compounds, properties, compound_seq, property_seq>>
    /\ \E doi \in {DoiA, Upper(DoiA)} :
        IF get_by_doi(doi) = <<>>
        THEN /\ last' = Called("ArticleCRUD.update", doi, NoAuthor, 0, "None")
             /\ UNCHANGED articles
        ELSE /\ last' = Called("ArticleCRUD.update", get_by_doi(doi)[1].doi, NoAuthor, 0, "ok")
             /\ articles' = [i \in 1..Len(articles) |->
                                IF articles[i].doi = get_by_doi(doi)[1].doi
                                THEN [articles[i] EXCEPT !.title = "Updated Title"]
                                ELSE articles[i]]

\* CompoundCRUD.delete
CompoundCRUD_delete ==
    /\ StartCall
    /\ UNCHANGED <<store, compound_seq, property_seq>>
    /\ \E compound_id \in 1..(compound_seq + 1) :
        IF CompoundRows(compound_id) = {}
        THEN /\ last' = Called("CompoundCRUD.delete", None, NoAuthor, compound_id, "False")
             /\ UNCHANGED <<compounds, properties>>
        ELSE /\ last' = [Called("CompoundCRUD.delete",
                                compounds[CHOOSE i \in CompoundRows(compound_id) : TRUE].article_doi,
                                NoAuthor, compound_id, "True")
                           EXCEPT !.property_ids =
                                    {properties[i].id : i \in
                                        {j \in 1..Len(properties) :
                                            properties[j].compound_id = compound_id}}]
             /\ DeleteCompounds({compound_id})

NextStore ==
    \/ \E p \in StoreCalls.procs :
        \/ ArticleCRUD_create(p, StoreCalls)
        \/ create_check(p)
        \/ get_or_create(p)
        \/ create_commit(p)
        \/ create_return(p)
        \/ Return(p)
    \/ AuthorCRUD_create
    \/ AuthorCRUD_get_or_create
    \/ CompoundCRUD_create
    \/ CompoundPropertyCRUD_create
    \/ ArticleCRUD_update
    \/ ArticleCRUD_delete
    \/ CompoundCRUD_delete

SpecStore == Init /\ [][NextStore]_vars

\* ------------------------------------------------------------------------
\* FileDownloadService and FileDownloader
\* ------------------------------------------------------------------------

\* max_size_mb * 1024 * 1024 bytes, counted in chunks of chunk_size=8192
MaxFileSize == 2

\* download calls made in one run
MaxDownloadCalls == 2

\* a URL: its scheme, the last component of its path, and what the server
\* behind it does: the status and the body, in chunks
Url(scheme, file, status, body) ==
    [scheme |-> scheme, file |-> file, serves |-> [status |-> status, body |-> body]]

UrlPdf == Url("https", <<"a",".","p","d","f">>, "200", 1)
UrlEmpty == Url("http", <<"e",".","p","d","f">>, "200", 0)
Url404 == Url("https", <<"m",".","p","d","f">>, "404", 0)
UrlPage == Url("https", <<"p","a","g","e">>, "200", 1)
UrlSupp == Url("https", <<"m","y"," ","d","o","c",".","p","d","f">>, "200", 1)

\* with them: a body at the limit and one over it, a server that is down, a
\* scheme that is not allowed, a name that is not allowed
Urls == {UrlPdf, UrlEmpty, Url404, UrlPage, UrlSupp,
         Url("https", <<"b",".","P","D","F">>, "200", MaxFileSize),
         Url("https", <<"c",".","p","d","f">>, "200", MaxFileSize + 1),
         Url("https", <<"d",".","p","d","f">>, "transport", 0),
         Url("ftp", <<"a",".","p","d","f">>, "200", 1),
         Url("https", <<"s",".","e","x","e">>, "200", 1)}

\* FileType = Literal["pdf", "html", "supplementary", "images"]
FileTypes == {"pdf", "html", "supplementary", "images"}

\* the filename argument of download_file: None (<<>>) or a name
Filenames == {<<>>, <<"s",".","e","x","e">>, <<"t",".","h","t","m","l">>}

\* one entry of the downloads list of download_multiple_files
DownloadSpec(url, file_type, filename) ==
    [url |-> url, file_type |-> file_type, filename |-> filename]

\* pdf + html + two supplementary files, the server failing for the last
ExampleDownloads ==
    <<DownloadSpec(UrlPdf, "pdf", <<>>), DownloadSpec(UrlPage, "html", <<>>),
      DownloadSpec(UrlSupp, "supplementary", <<>>),
      DownloadSpec(Url404, "supplementary", <<>>)>>

\* one URL asked for twice, as the pdf and as a supplementary file
RepeatedDownloads ==
    <<DownloadSpec(UrlEmpty, "pdf", <<>>), DownloadSpec(UrlEmpty, "supplementary", <<>>)>>

DownloadLists == {ExampleDownloads, RepeatedDownloads}

\* positions of a character in a name
Positions(name, c) == {i \in 1..Len(name) : name[i] = c}

Last(S) == CHOOSE i \in S : \A j \in S : j <= i

\* Path(name).name: what follows the last "/"
PathName(name) ==
    IF Positions(name, "/") = {} THEN name
    ELSE SubSeq(name, Last(Positions(name, "/")) + 1, Len(name))

\* Path(name).suffix: from the last dot of the name, unless the dot leads
\* or ends the name
PathSuffix(name) ==
    LET n == PathName(name)
        dots == Positions(n, ".")
    IN  IF dots = {} \/ Last(dots) = 1 \/ Last(dots) = Len(n) THEN <<>>
        ELSE SubSeq(n, Last(dots), Len(n))

UnsafeChars == {"<", ">", ":", "\"", "|", "?", "*", "\\"}

RECURSIVE Collapse(_)
\* re.sub(r"[_\s]+", "_", name)
Collapse(name) ==
    IF name = <<>> THEN <<>>
    ELSE IF name[1] \in {"_", " "}
    THEN IF Len(name) > 1 /\ name[2] \in {"_", " "}
         THEN Collapse(Tail(name))
         ELSE <<"_">> \o Collapse(Tail(name))
    ELSE <<name[1]>> \o Collapse(Tail(name))

RECURSIVE StripUnderscores(_)
\* str.strip("_")
StripUnderscores(name) ==
    IF name = <<>> THEN <<>>
    ELSE IF name[1] = "_" THEN StripUnderscores(Tail(name))
    ELSE IF name[Len(name)] = "_" THEN StripUnderscores(SubSeq(name, 1, Len(name) - 1))
    ELSE name

\* get_safe_filename, for names shorter than max_length
get_safe_filename(original_filename) ==
    LET filename == PathName(original_filename)
        safe == [i \in 1..Len(filename) |->
                    IF filename[i] \in UnsafeChars THEN "_" ELSE filename[i]]
    IN  StripUnderscores(Collapse(safe))

\* FileDownloadService._extract_filename_from_url
_extract_filename_from_url(url) ==
    IF url.file # <<>> /\ Positions(url.file, ".") # {} THEN url.file
    ELSE <<"d","o","w","n","l","o","a","d","_","e",".","c",".","h","t","m","l">>

allowed_extensions(file_type) ==
    CASE file_type = "pdf" -> {<<".","p","d","f">>}
      [] file_type = "html" -> {<<".","h","t","m","l">>, <<".","h","t","m">>, <<".","x","m","l">>}
      [] file_type = "supplementary" ->
            {<<".","p","d","f">>, <<".","d","o","c">>, <<".","d","o","c","x">>, <<".","t","x","t">>, <<".","c","s","v">>, <<".","x","l","s","x">>, <<".","x","l","s">>, <<".","z","i","p">>,
             <<".","t","a","r">>, <<".","g","z">>, <<".","r","a","r">>, <<".","7","z">>, <<".","p","n","g">>, <<".","j","p","g">>, <<".","j","p","e","g">>, <<".","g","i","f">>,
             <<".","t","i","f","f">>, <<".","b","m","p">>, <<".","s","v","g">>}
      [] file_type = "images" ->
            {<<".","p","n","g">>, <<".","j","p","g">>, <<".","j","p","e","g">>, <<".","g","i","f">>, <<".","t","i","f","f">>, <<".","t","i","f">>, <<".","b","m","p">>, <<".","s","v","g">>,
             <<".","w","e","b","p">>}
      [] OTHER -> {}

\* every name is taken
is_allowed_any(filename, file_type) == TRUE

\* is_allowed_file_type
is_allowed_file_type(filename, file_type) ==
    Lower(PathSuffix(filename)) \in allowed_extensions(file_type)

\* the file at a path, if there is one
FileAt(dir, name) == {f \in disk : f.dir = dir /\ f.name = name}

\* open(path, "wb") and write: the file at the path holds size chunks
Written(dir, name, size) ==
    (disk \ FileAt(dir, name)) \cup {[dir |-> dir, name |-> name, size |-> size]}

\* download_file returns
DownloadReturns(result) ==
    /\ dl_call' = [dl_call EXCEPT !.result = result]
    /\ dl_pc' = "dl_returned"

\* FileDownloadService.download_file, lines 91-117: the checks made before
\* any request
EnterDownload(spec, caller) ==
    LET filename == IF spec.filename = <<>>
                    THEN _extract_filename_from_url(spec.url)
                    ELSE spec.filename
        safe_filename == get_safe_filename(filename)
        call == [NoDl EXCEPT !.url = spec.url, !.file_type = spec.file_type,
                             !.filename = spec.filename, !.caller = caller,
                             !.pre_disk = disk, !.pre_log = Len(http_log)]
    IN  IF spec.url.scheme \notin {"http", "https"}
        THEN /\ dl_call' = [call EXCEPT !.result =
                    DownloadResult(FALSE, <<>>, "URL must use HTTP or HTTPS protocol")]
             /\ dl_pc' = "dl_returned"
        ELSE IF ~is_allowed_file_type(safe_filename, spec.file_type)
        THEN /\ dl_call' = [call EXCEPT !.safe_filename = safe_filename, !.result =
                    DownloadResult(FALSE, <<>>, "File type not allowed for category")]
             /\ dl_pc' = "dl_returned"
        ELSE /\ dl_call' = [call EXCEPT !.safe_filename = safe_filename]
             /\ dl_pc' = "dl_stream"

\* FileDownloadService.download_file called by itself
download_file ==
    /\ dl_pc = "idle"
    /\ dl_calls < MaxDownloadCalls
    /\ dl_calls' = dl_calls + 1
    /\ UNCHANGED <<disk, http_log, multi>>
    /\ UNCHANGED nondlvars
    /\ \E url \in Urls, file_type \in FileTypes, filename \in Filenames :
        EnterDownload(DownloadSpec(url, file_type, filename), "caller")

\* lines 122-130: the request, raise_for_status, and open(target_path, "wb");
\* total_size is bound by no statement before the loop
client_stream ==
    /\ dl_pc = "dl_stream"
    /\ UNCHANGED <<multi, dl_calls>>
    /\ UNCHANGED nondlvars
    /\ http_log' = Append(http_log, dl_call.url)
    /\ IF dl_call.url.serves.status # "200"
       THEN /\ DownloadReturns(DownloadResult(FALSE, <<>>, "HTTP error"))
            /\ UNCHANGED disk
       ELSE /\ disk' = Written(dl_call.file_type, dl_call.safe_filename, 0)
            /\ dl_call' = [dl_call EXCEPT !.remaining = dl_call.url.serves.body,
                                          !.total_size = <<>>]
            /\ dl_pc' = "dl_iter"

\* lines 131-142: one turn of the loop over the chunks, or its end
iter_bytes ==
    /\ dl_pc = "dl_iter"
    /\ UNCHANGED <<http_log, multi, dl_calls>>
    /\ UNCHANGED nondlvars
    /\ LET dir == dl_call.file_type
           name == dl_call.safe_filename
           size == (CHOOSE f \in FileAt(dir, name) : TRUE).size
       IN  IF dl_call.remaining = 0
           THEN /\ dl_pc' = "dl_final"
                /\ UNCHANGED <<disk, dl_call>>
           ELSE IF dl_call.total_size = <<>>
           THEN \* file.write(chunk), then total_size += len(chunk) raises
                \* UnboundLocalError, which except Exception takes
                /\ disk' = Written(dir, name, size + 1)
                /\ DownloadReturns(DownloadResult(FALSE, <<>>, "Download failed"))
           ELSE IF dl_call.total_size[1] + 1 > MaxFileSize
           THEN /\ disk' = disk \ FileAt(dir, name)
                /\ DownloadReturns(DownloadResult(FALSE, <<>>, "File too large"))
           ELSE /\ disk' = Written(dir, name, size + 1)
                /\ dl_call' = [dl_call EXCEPT !.remaining = @ - 1,
                                              !.total_size = <<@[1] + 1>>]
                /\ dl_pc' = "dl_iter"

\* lines 144-165: validate_file_size and the successful result
validate_file_size ==
    /\ dl_pc = "dl_final"
    /\ UNCHANGED <<http_log, multi, dl_calls>>
    /\ UNCHANGED nondlvars
    /\ LET dir == dl_call.file_type
           name == dl_call.safe_filename
           size == (CHOOSE f \in FileAt(dir, name) : TRUE).size
       IN  IF size <= MaxFileSize
           THEN /\ DownloadReturns(DownloadResult(TRUE, <<dir, name>>, "-"))
                /\ UNCHANGED disk
           ELSE /\ disk' = disk \ FileAt(dir, name)
                /\ DownloadReturns(DownloadResult(FALSE, <<>>,
                                       "Downloaded file exceeds size limit"))

\* the caller of download_file takes the result
download_return ==
    /\ dl_pc = "dl_returned"
    /\ dl_call.caller = "caller"
    /\ dl_pc' = "idle"
    /\ dl_call' = NoDl
    /\ UNCHANGED <<disk, http_log, multi, dl_calls>>
    /\ UNCHANGED nondlvars

\* results[url] = result
Put(results, url, result) ==
    IF \E i \in 1..Len(results) : results[i].url = url
    THEN [i \in 1..Len(results) |->
            IF results[i].url = url THEN [url |-> url, result |-> result]
            ELSE results[i]]
    ELSE Append(results, [url |-> url, result |-> result])

\* FileDownloadService.download_multiple_files is called
download_multiple_files ==
    /\ dl_pc = "idle"
    /\ dl_calls < MaxDownloadCalls
    /\ dl_calls' = dl_calls + 1
    /\ UNCHANGED <<disk, http_log, dl_call>>
    /\ UNCHANGED nondlvars
    /\ \E downloads \in DownloadLists :
        multi' = [engine |-> "FileDownloadService", requested |-> downloads,
                  pending |-> downloads, results |-> <<>>]
    /\ dl_pc' = "multi_loop"

\* lines 189-194: the next download_spec, or the end of the loop
multi_next ==
    /\ dl_pc = "multi_loop"
    /\ multi.engine = "FileDownloadService"
    /\ UNCHANGED <<disk, http_log, dl_calls>>
    /\ UNCHANGED nondlvars
    /\ IF multi.pending = <<>>
       THEN /\ dl_pc' = "multi_returned"
            /\ UNCHANGED <<dl_call, multi>>
       ELSE /\ EnterDownload(Head(multi.pending), "download_multiple_files")
            /\ multi' = [multi EXCEPT !.pending = Tail(@)]

\* lines 194-198: results[url] = result
multi_collect ==
    /\ dl_pc = "dl_returned"
    /\ dl_call.caller = "download_multiple_files"
    /\ multi' = [multi EXCEPT !.results = Put(@, dl_call.url, dl_call.result)]
    /\ dl_call' = NoDl
    /\ dl_pc' = "multi_loop"
    /\ UNCHANGED <<disk, http_log, dl_calls>>
    /\ UNCHANGED nondlvars

\* str.endswith
EndsWith(name, tail) ==
    Len(name) >= Len(tail) /\ SubSeq(name, Len(name) - Len(tail) + 1, Len(name)) = tail

\* the file name FileDownloader._download_file saves under
DownloaderFilename(file_type, filename) ==
    LET safe_filename == get_safe_filename(filename)
    IN  IF file_type = "pdf" /\ ~EndsWith(safe_filename, <<".","p","d","f">>)
        THEN safe_filename \o <<".","p","d","f">>
        ELSE IF file_type = "html"
                /\ ~EndsWith(safe_filename, <<".","h","t","m","l">>)
                /\ ~EndsWith(safe_filename, <<".","h","t","m">>)
        THEN safe_filename \o <<".","h","t","m","l">>
        ELSE safe_filename

\* FileDownloader.download_from_urls is called with a pdf_url, an html_url
\* and supplementary_urls
download_from_urls ==
    /\ dl_pc = "idle"
    /\ dl_calls < MaxDownloadCalls
    /\ dl_calls' = dl_calls + 1
    /\ UNCHANGED <<disk, http_log, dl_call>>
    /\ UNCHANGED nondlvars
    /\ \E downloads \in DownloadLists :
        LET supplementary(n) ==
                Cardinality({i \in 1..n : downloads[i].file_type = "supplementary"})
            named == [n \in 1..Len(downloads) |->
                        [downloads[n] EXCEPT !.filename =
                            CASE downloads[n].file_type = "pdf" -> <<"a","r","t","i","c","l","e",".","p","d","f">>
                              [] downloads[n].file_type = "html" -> <<"a","r","t","i","c","l","e",".","h","t","m","l">>
                              [] OTHER -> IF supplementary(n) = 1
                                          THEN <<"s","u","p","p","l","e","m","e","n","t","a","r","y","_","1">> ELSE <<"s","u","p","p","l","e","m","e","n","t","a","r","y","_","2">>]]
        IN  multi' = [engine |-> "FileDownloader", requested |-> named,
                      pending |-> named, results |-> <<>>]
    /\ dl_pc' = "multi_loop"

\* FileDownloader._download_file for the next URL, or the end of
\* download_from_urls
_download_file ==
    /\ dl_pc = "multi_loop"
    /\ multi.engine = "FileDownloader"
    /\ UNCHANGED <<dl_call, dl_calls>>
    /\ UNCHANGED nondlvars
    /\ IF multi.pending = <<>>
       THEN /\ dl_pc' = "multi_returned"
            /\ UNCHANGED <<disk, http_log, multi>>
       ELSE LET spec == Head(multi.pending)
                name == DownloaderFilename(spec.file_type, spec.filename)
                ok == spec.url.serves.status = "200"
            IN  /\ http_log' = Append(http_log, spec.url)
                /\ disk' = IF ok THEN Written(spec.file_type, name, spec.url.serves.body)
                           ELSE disk
                /\ multi' = [multi EXCEPT
                       !.pending = Tail(@),
                       !.results = Append(@,
                           [url |-> spec.url,
                            result |-> IF ok
                                       THEN DownloadResult(TRUE, <<spec.file_type, name>>, "-")
                                       ELSE DownloadResult(FALSE, <<>>, "HTTP error")])]
                /\ UNCHANGED dl_pc

\* the caller of the multi-file download takes the results
multi_return ==
    /\ dl_pc = "multi_returned"
    /\ dl_pc' = "idle"
    /\ multi' = NoMulti
    /\ UNCHANGED <<disk, http_log, dl_call, dl_calls>>
    /\ UNCHANGED nondlvars

NextDownload ==
    \/ download_file
    \/ client_stream
    \/ iter_bytes
    \/ validate_file_size
    \/ download_return
    \/ download_multiple_files
    \/ multi_next
    \/ multi_collect
    \/ download_from_urls
    \/ _download_file
    \/ multi_return

SpecDownload == Init /\ [][NextDownload]_vars

\* ------------------------------------------------------------------------
\* FileDownloader.auto_discover_and_download
\* ------------------------------------------------------------------------

\* str.replace(old, new)
RECURSIVE Replace(_, _, _)
Replace(s, old, new) ==
    IF Len(s) < Len(old) THEN s
    ELSE IF StartsWith(s, old) THEN new \o Replace(DropPrefix(s, old), old, new)
    ELSE <<Head(s)>> \o Replace(Tail(s), old, new)

\* sub in s
Contains(s, sub) ==
    \E k \in 0..(Len(s) - Len(sub)) : SubSeq(s, k + 1, k + Len(sub)) = sub

\* the keys of PUBLISHER_PATTERNS in their order
PublisherKeys ==
    <<<<"r","o","y","a","l"," ","s","o","c","i","e","t","y"," ","o","f"," ","c","h","e","m","i","s","t","r","y">>, <<"a","m","e","r","i","c","a","n"," ","c","h","e","m","i","c","a","l"," ","s","o","c","i","e","t","y">>, <<"e","l","s","e","v","i","e","r">>,
      <<"w","i","l","e","y">>, <<"s","p","r","i","n","g","e","r">>>>

\* PUBLISHER_PATTERNS[pub_key][file_type](doi, url); None stands for None
PUBLISHER_PATTERNS(pub_key, file_type, doi, url) ==
    CASE pub_key = PublisherKeys[1] /\ file_type = "pdf" ->
             <<"h","t","t","p","s",":","/","/","p","u","b","s",".","r","s","c",".","o","r","g","/","e","n","/","c","o","n","t","e","n","t","/","a","r","t","i","c","l","e","p","d","f","/">> \o PathName(doi)
      [] pub_key = PublisherKeys[3] /\ file_type = "pdf" ->
             <<"h","t","t","p","s",":","/","/","a","p","i",".","e","l","s","e","v","i","e","r",".","c","o","m","/","c","o","n","t","e","n","t","/","a","r","t","i","c","l","e","/","d","o","i","/">> \o doi
                 \o <<"?","h","t","t","p","A","c","c","e","p","t","=","a","p","p","l","i","c","a","t","i","o","n","/","p","d","f">>
      [] pub_key \in {PublisherKeys[2], PublisherKeys[4]} /\ file_type = "pdf" ->
             IF url = None THEN None ELSE Replace(url, <<"/","a","b","s","/">>, <<"/","p","d","f","/">>)
      [] pub_key \in {PublisherKeys[2], PublisherKeys[4]} /\ file_type = "html" ->
             IF url = None THEN None ELSE Replace(url, <<"/","p","d","f","/">>, <<"/","a","b","s","/">>)
      [] pub_key = PublisherKeys[5] /\ file_type = "pdf" ->
             IF url = None THEN None ELSE Replace(url, <<".","h","t","m","l">>, <<".","p","d","f">>)
      [] OTHER -> url

\* the pdf_patterns of _try_generic_patterns applied to a URL, in their order
pdf_patterns(u) ==
    <<Replace(u, <<"/","a","b","s","/">>, <<"/","p","d","f","/">>), Replace(u, <<"/","a","b","s","t","r","a","c","t","/">>, <<"/","p","d","f","/">>),
      Replace(u, <<"/","f","u","l","l","/">>, <<"/","p","d","f","/">>), Replace(u, <<".","h","t","m","l">>, <<".","p","d","f">>),
      Replace(u, <<"/","h","t","m","l","/">>, <<"/","p","d","f","/">>),
      IF ~EndsWith(u, <<".","p","d","f">>) THEN u \o <<".","p","d","f">> ELSE u>>

\* FileDownloader._get_filename_from_url for an https URL
_get_filename_from_url(url) ==
    LET marks == Positions(url, "?")
        plain == IF marks = {} THEN url
                 ELSE SubSeq(url, 1, (CHOOSE k \in marks : \A j \in marks : k <= j) - 1)
        rest == DropPrefix(plain, <<"h","t","t","p","s",":","/","/">>)
        slashes == Positions(rest, "/")
        netloc == IF slashes = {} THEN rest
                  ELSE SubSeq(rest, 1, (CHOOSE k \in slashes : \A j \in slashes : k <= j) - 1)
        name == IF slashes = {} THEN <<>> ELSE PathName(rest)
    IN  IF name # <<>> /\ Positions(name, ".") # {} THEN name
        ELSE <<"d","o","w","n","l","o","a","d","_">> \o Replace(Replace(netloc, <<"w","w","w",".">>, <<>>), <<".">>, <<"_">>)

\* _try_download(doi, url, file_type) and, when the HEAD request shows the
\* content type, _download_file: the file is saved or the attempt fails
TryDownload(stage, url, file_type, ok) ==
    /\ ad' = [ad EXCEPT
                !.tried = Append(@, [stage |-> stage, url |-> url,
                                     file_type |-> file_type, ok |-> ok]),
                ![file_type] = IF ok THEN "ok"
                               ELSE IF stage = "generic" THEN @ ELSE "failed",
                !.pc = CASE stage = "publisher_pdf" -> "publisher_html"
                         [] stage = "publisher_html" -> "generic"
                         [] stage = "generic" -> IF ok THEN "doi_org" ELSE "generic"
                         [] OTHER -> "returned",
                !.i = IF stage = "generic" THEN @ + 1 ELSE @]
    /\ disk' = IF ok
               THEN Written(file_type,
                            DownloaderFilename(file_type, _get_filename_from_url(url)), 1)
               ELSE disk
    /\ UNCHANGED nonad

\* no request is made at this point of the call
Skip(next) ==
    /\ ad' = [ad EXCEPT !.pc = next, !.i = IF ad.pc = "generic" THEN @ + 1 ELSE @]
    /\ UNCHANGED <<disk, nonad>>

\* auto_discover_and_download is called; lines 83-87: the first key of
\* PUBLISHER_PATTERNS that occurs in the lower-cased publisher
auto_discover_and_download ==
    /\ ad.pc = "idle"
    /\ \E doi \in {DoiA},
          publisher \in {None, <<"A","m","e","r","i","c","a","n"," ","C","h","e","m","i","c","a","l"," ","S","o","c","i","e","t","y">>, <<"E","l","s","e","v","i","e","r">>,
                         <<"S","p","r","i","n","g","e","r">>, <<"O","t","h","e","r"," ","P","r","e","s","s">>},
          url \in {None, <<"h","t","t","p","s",":","/","/","p",".","o","r","g","/","a","b","s","/","a">>, <<"h","t","t","p","s",":","/","/","p",".","o","r","g","/","f","u","l","l","/","a",".","h","t","m","l">>,
                   <<"h","t","t","p","s",":","/","/","p",".","o","r","g","/","p","d","f","/","a",".","p","d","f">>} :
        LET keys == IF publisher = None THEN {}
                    ELSE {k \in 1..Len(PublisherKeys) :
                             Contains(Lower(publisher), PublisherKeys[k])}
        IN  ad' = [NoAd EXCEPT
                     !.doi = doi, !.publisher = publisher, !.url = url,
                     !.pub_key = IF keys = {} THEN <<>>
                                 ELSE PublisherKeys[CHOOSE k \in keys :
                                                       \A j \in keys : k <= j],
                     !.i = 1,
                     !.pc = IF keys = {} THEN "generic" ELSE "publisher_pdf"]
    /\ UNCHANGED <<disk, nonad>>

\* lines 88-92: the PDF URL of the publisher's pattern is tried
publisher_pdf ==
    /\ ad.pc = "publisher_pdf"
    /\ LET pdf_url == PUBLISHER_PATTERNS(ad.pub_key, "pdf", ad.doi, ad.url)
       IN  IF pdf_url # None
           THEN \E ok \in BOOLEAN : TryDownload("publisher_pdf", pdf_url, "pdf", ok)
           ELSE Skip("publisher_html")

\* lines 94-103: the HTML URL of the publisher's pattern is tried unless it
\* is the article URL
publisher_html ==
    /\ ad.pc = "publisher_html"
    /\ LET html_url == PUBLISHER_PATTERNS(ad.pub_key, "html", ad.doi, ad.url)
       IN  IF html_url # None /\ html_url # ad.url
           THEN \E ok \in BOOLEAN : TryDownload("publisher_html", html_url, "html", ok)
           ELSE Skip("generic")

\* lines 105-109 and _try_generic_patterns: entered only with no result so
\* far and a URL; one rewrite per step, tried when it changes the URL, the
\* loop left at the first success
_try_generic_patterns ==
    /\ ad.pc = "generic"
    /\ IF ad.i = 1 /\ ~(ad.pdf = "none" /\ ad.html = "none" /\ ad.url # None)
       THEN Skip("doi_org")
       ELSE IF ad.i > Len(pdf_patterns(ad.url))
       THEN Skip("doi_org")
       ELSE LET pdf_url == pdf_patterns(ad.url)[ad.i]
            IN  IF pdf_url # ad.url
                THEN \E ok \in BOOLEAN : TryDownload("generic", pdf_url, "pdf", ok)
                ELSE Skip("generic")

\* lines 111-116: https://doi.org/{doi} is tried when results has no "pdf"
\* entry (a failed attempt is an entry)
doi_org ==
    /\ ad.pc = "doi_org"
    /\ IF ad.pdf = "none"
       THEN \E ok \in BOOLEAN :
                TryDownload("doi_org", DoiOrgHttps \o ad.doi, "pdf", ok)
       ELSE Skip("returned")

\* the caller takes the results
discover_return ==
    /\ ad.pc = "returned"
    /\ ad' = NoAd
    /\ UNCHANGED <<disk, nonad>>

NextDiscover ==
    \/ auto_discover_and_download
    \/ publisher_pdf
    \/ publisher_html
    \/ _try_generic_patterns
    \/ doi_org
    \/ discover_return

SpecDiscover == Init /\ [][NextDiscover]_vars

\* ------------------------------------------------------------------------
\* Journal lookup (services/utils.py and services/simple_journal_mapper.py)
\* ------------------------------------------------------------------------

\* JOURNAL_MAPPINGS in its order: pattern -> (short name, full name, publisher)
JOURNAL_MAPPINGS ==
    << [pattern |-> <<"1","0",".","1","0","3","9","/",".",".","o","b">>, short_name |-> "Org. Biomol. Chem.",
        full_name |-> "Organic & Biomolecular Chemistry", publisher |-> "RSC"],
       [pattern |-> <<"1","0",".","1","0","3","9","/",".",".","c","c">>, short_name |-> "Chem. Commun.",
        full_name |-> "Chemical Communications", publisher |-> "RSC"],
       [pattern |-> <<"1","0",".","1","0","3","9","/",".",".","d","t">>, short_name |-> "Dalton Trans.",
        full_name |-> "Dalton Transactions", publisher |-> "RSC"],
       [pattern |-> <<"1","0",".","1","0","3","9","/",".",".","c","s">>, short_name |-> "Chem. Soc. Rev.",
        full_name |-> "Chemical Society Reviews", publisher |-> "RSC"],
       [pattern |-> <<"1","0",".","1","0","2","1","/","a","c","s",".","j","o","c">>, short_name |-> "J. Org. Chem.",
        full_name |-> "The Journal of Organic Chemistry", publisher |-> "ACS"],
       [pattern |-> <<"1","0",".","1","0","2","1","/","j","a">>, short_name |-> "J. Am. Chem. Soc.",
        full_name |-> "Journal of the American Chemical Society",
        publisher |-> "ACS"],
       [pattern |-> <<"1","0",".","1","0","2","1","/","j","o">>, short_name |-> "J. Org. Chem.",
        full_name |-> "The Journal of Organic Chemistry", publisher |-> "ACS"],
       [pattern |-> <<"1","0",".","3","7","6","2","/","b","j","o","c">>, short_name |-> "Beilstein J. Org. Chem.",
        full_name |-> "Beilstein Journal of Organic Chemistry",
        publisher |-> "Beilstein"] >>

\* "10.1039/" and the "10.1039/.." that starts a positional pattern
Rsc == <<"1","0",".","1","0","3","9","/">>
RscDots == <<"1","0",".","1","0","3","9","/",".",".">>

\* JournalInfo(*row): the optional result of a lookup
JournalInfo(row) ==
    <<[short_name |-> row.short_name, full_name |-> row.full_name,
       publisher |-> row.publisher]>>

\* final_section[0:2], the characters before the journal code
journal_code_leading(final_section) == SubSeq(final_section, 1, 2)

\* final_section[2:4]
journal_code(final_section) == SubSeq(final_section, 3, 4)

\* utils.get_journal_info
get_journal_info(doi) ==
    IF doi = None \/ doi = <<>> THEN <<>>
    ELSE LET doi_lower == Lower(doi)
             final_section == DropPrefix(doi_lower, Rsc)
             pattern_key == RscDots \o journal_code(final_section)
             keyed == {i \in 1..Len(JOURNAL_MAPPINGS) :
                          JOURNAL_MAPPINGS[i].pattern = pattern_key}
             prefixed == {i \in 1..Len(JOURNAL_MAPPINGS) :
                            /\ ~StartsWith(JOURNAL_MAPPINGS[i].pattern, RscDots)
                            /\ StartsWith(doi_lower, JOURNAL_MAPPINGS[i].pattern)}
         IN  IF /\ StartsWith(doi_lower, Rsc)
                /\ Len(final_section) >= 4
                /\ keyed # {}
             THEN JournalInfo(JOURNAL_MAPPINGS[CHOOSE i \in keyed : TRUE])
             ELSE IF prefixed # {}
             THEN JournalInfo(JOURNAL_MAPPINGS[
                      CHOOSE i \in prefixed : \A j \in prefixed : i <= j])
             ELSE <<>>

\* JournalMapper._matches_pattern
_matches_pattern(doi, pattern) ==
    IF StartsWith(pattern, RscDots)
    THEN /\ StartsWith(doi, Rsc)
         /\ Len(DropPrefix(doi, Rsc)) >= 4
         /\ journal_code(DropPrefix(doi, Rsc)) = DropPrefix(pattern, RscDots)
    ELSE StartsWith(doi, pattern)

\* JournalMapper.get_journal_info over the rows it loaded (none when the CSV
\* file is missing)
JournalMapper_get_journal_info(mappings, doi) ==
    IF doi = None \/ doi = <<>> THEN <<>>
    ELSE LET matching == {i \in 1..Len(mappings) :
                            _matches_pattern(Lower(doi), Lower(mappings[i].pattern))}
         IN  IF matching = {} THEN <<>>
             ELSE JournalInfo(mappings[CHOOSE i \in matching :
                                          \A j \in matching : i <= j])

\* DOIs looked up
JournalDois ==
    {None, <<>>, DoiA, <<"1","0",".","1","0","3","9","/","d","5","o","b","0","0","5","1","9","a">>, <<"1","0",".","1","0","3","9","/","d","5","x","x","0","0","5","1","9","a">>,
     <<"1","0",".","1","0","0","0","/","u","n","k","n","o","w","n">>, <<"1","0",".","1","0","3","9","/","D","5","O","B","0","0","5","1","9","A">>, <<"1","0",".","1","0","3","9","/","d","5","o">>, <<"1","0",".","1","0","3","9","/","o","b","o","b">>,
     <<"1","0",".","1","0","3","9","/","d","5","c","c","1">>, <<"1","0",".","1","0","3","9","/","c","9","d","t","2">>, <<"1","0",".","1","0","3","9","/","c","9","c","s","2">>, <<"1","0",".","1","0","3","9","/",".",".","o","b">>,
     <<"1","0",".","1","0","2","1","/","j","a","1">>, <<"1","0",".","1","0","2","1","/","J","A","1">>, <<"1","0",".","1","0","2","1","/","j","o","1">>, <<"1","0",".","1","0","2","1","/","a","c","s",".","j","o","c",".","1">>,
     <<"1","0",".","1","0","2","1","/","a","c","s",".","j">>, <<"1","0",".","1","0","2","1","/","j">>, <<"1","0",".","3","7","6","2","/","b","j","o","c",".","1">>, <<" ","1","0",".","1","0","2","1","/","j","a","1">>,
     <<"1","0",".","1","0","3","9","/","o","b","c","c">>, <<"1","0",".","1","0","3","9","/">>}

\* a lookup by the function of utils.py and by a JournalMapper that loaded
\* the same rows, or no rows
get_journal_info_call ==
    /\ conv.op = "-"
    /\ \E doi \in JournalDois :
        conv' = [op |-> "get_journal_info", input |-> doi,
                 output |-> get_journal_info(doi),
                 mapper |-> JournalMapper_get_journal_info(JOURNAL_MAPPINGS, doi),
                 unloaded |-> JournalMapper_get_journal_info(<<>>, doi)]
    /\ UNCHANGED nonconv

\* the caller takes the value; the next conversion starts afresh
conv_return ==
    /\ conv.op # "-"
    /\ conv' = [op |-> "-"]
    /\ UNCHANGED nonconv

\* ------------------------------------------------------------------------
\* Conversions: DOI normalization, external records, journal lookup
\* ------------------------------------------------------------------------

\* a date field of an external record: None, or a dict with "date-parts"
NoDate == [present |-> FALSE, date_parts |-> <<>>]

DateValues ==
    {NoDate, [present |-> TRUE, date_parts |-> <<>>],
     [present |-> TRUE, date_parts |-> <<<<2021, 5>>>>],
     [present |-> TRUE, date_parts |-> <<<<2022>>>>]}

\* the work records of CrossRef: the fields the conversion is about
CrossRefWorks ==
    [DOI : {Upper(DoiA)},
     title : {<<>>, <<"Fetched Title">>},
     container_title : {<<>>, <<"Organic Letters">>},
     published : DateValues,
     published_online : DateValues,
     published_print : DateValues,
     issued : {NoDate, [present |-> TRUE, date_parts |-> <<<<2020>>>>]},
     created : {NoDate, [present |-> TRUE, date_parts |-> <<<<2019>>>>]},
     abstract : {None, <<"<","j","a","t","s",":","p",">","A","<","j","a","t","s",":","s","u","b",">","2","<","/","j","a","t","s",":","s","u","b",">","B","<","/","j","a","t","s",":","p",">">>, <<" ","A","2","B">>}]

\* CrossRefResponse.model_validate: the declared fields are kept (strings
\* stripped), every other key of the work record is dropped
CrossRefResponse(work) ==
    [DOI |-> Strip(work.DOI), title |-> work.title,
     container_title |-> work.container_title,
     published |-> work.published,
     published_online |-> work.published_online,
     published_print |-> work.published_print,
     abstract |-> IF work.abstract = None THEN None ELSE Strip(work.abstract)]

\* date_parts[0][0] under the guards of lines 319 and 323
FirstDatePart(date) ==
    IF date.date_parts # <<>> /\ date.date_parts[1] # <<>>
    THEN <<date.date_parts[1][1]>> ELSE <<>>

\* CrossRefService._convert_crossref_to_article; a year is <<>> or <<y>>
_convert_crossref_to_article(crossref_data) ==
    [doi |-> validate_doi(Lower(crossref_data.DOI)),
     title |-> IF crossref_data.title # <<>> THEN crossref_data.title[1]
               ELSE "Unknown Title",
     journal |-> IF crossref_data.container_title # <<>>
                 THEN crossref_data.container_title[1] ELSE "None",
     year |-> IF crossref_data.published_print.present
              THEN FirstDatePart(crossref_data.published_print)
              ELSE IF crossref_data.published_online.present
              THEN FirstDatePart(crossref_data.published_online)
              ELSE <<>>,
     abstract |-> crossref_data.abstract]

\* utils._extract_year_from_date_value
_extract_year_from_date_value(date_value) ==
    IF ~date_value.present THEN <<>> ELSE FirstDatePart(date_value)

\* utils.extract_year_from_crossref on an object that has the attributes
\* published, published_online, issued, published_print, created
extract_year_from_crossref(crossref_data) ==
    LET date_fields == <<crossref_data.published, crossref_data.published_online,
                         crossref_data.issued, crossref_data.published_print,
                         crossref_data.created>>
        found == {i \in 1..Len(date_fields) :
                     _extract_year_from_date_value(date_fields[i]) # <<>>}
    IN  IF found = {} THEN <<>>
        ELSE _extract_year_from_date_value(
                 date_fields[CHOOSE i \in found : \A j \in found : i <= j])

\* CrossRefService.fetch_and_convert_article, lines 283-291, for a work record
\* that get_article_by_doi received; utils_year is what the helper of
\* utils.py, which the conversion does not call, gives for the record
fetch_and_convert_article ==
    /\ conv.op = "-"
    /\ \E work \in CrossRefWorks :
        conv' = [op |-> "_convert_crossref_to_article", input |-> work,
                 output |-> _convert_crossref_to_article(CrossRefResponse(work)),
                 utils_year |-> extract_year_from_crossref(work)]
    /\ UNCHANGED nonconv

\* raw DOI values: optional white space, an optional prefix (a known one in
\* either case, two in a row, or none), optional white space, and a body
DoiInputs ==
    LET lead == {<<>>, <<" ">>}
        known == {<<>>, DoiOrgHttps, DoiOrgHttp, DxDoiOrgHttps, DxDoiOrgHttp, DoiColon,
                <<"H","T","T","P","S",":","/","/","D","O","I",".","O","R","G","/">>, <<"D","O","I",":">>, DoiColon \o DoiColon,
                DoiOrgHttps \o DoiColon}
        gap == {<<>>, <<" ">>}
        body == {DoiA, <<"1","0",".","1","/","A">>, <<"1","0",".","1","0","0","0","/","T","e","s","t">>, NotADoi, <<>>, <<"1","1",".","1","/","a">>, TenDot}
        trail == {<<>>, <<" ">>, <<"\n">>}
    IN  {None} \cup {a \o b \o c \o d \o e :
                        a \in lead, b \in known, c \in gap, d \in body, e \in trail}

\* CrossRefClient._clean_doi and ArticleService._clean_doi (the same
\* statements) applied to a raw DOI
_clean_doi_call ==
    /\ conv.op = "-"
    /\ \E doi \in DoiInputs :
        conv' = [op |-> "_clean_doi", input |-> doi, output |-> _clean_doi(doi)]
    /\ UNCHANGED nonconv

\* the function applied to the value it returned
_clean_doi_again ==
    /\ conv.op = "_clean_doi"
    /\ conv.output # None
    /\ conv' = [op |-> "_clean_doi again", input |-> conv.input,
                output |-> conv.output, again |-> _clean_doi(conv.output)]
    /\ UNCHANGED nonconv

NextConvert ==
    \/ _clean_doi_call
    \/ _clean_doi_again
    \/ get_journal_info_call
    \/ fetch_and_convert_article
    \/ conv_return

SpecConvert == Init /\ [][NextConvert]_vars

\* ------------------------------------------------------------------------
\* RateLimiter and CrossRefClient
\* ------------------------------------------------------------------------

\* RateLimiter.max_requests (settings.crossref_rate_limit, or rate_limit)
MaxRequests == 2

\* RateLimiter.time_window (one minute), in ticks of the clock
TimeWindow == 3

\* the clock ticks up to here (a sleep may end later)
MaxTime == 8

\* number of client calls in one behaviour
MaxSends == 4

\* number of client calls in one behaviour of several callers
MaxSharedSends == 3

\* [req_time for req_time in self.requests if req_time > cutoff]
Prune(reqs, cutoff) == SelectSeq(reqs, LAMBDA req_time : req_time > cutoff)

\* the budget check off by one: len(self.requests) <= self.max_requests
HasBudgetInclusive(reqs) == Len(reqs) <= MaxRequests

\* len(self.requests) < self.max_requests
HasBudget(reqs) == Len(reqs) < MaxRequests

\* min(self.requests)
Oldest(reqs) == CHOOSE t \in {reqs[i] : i \in 1..Len(reqs)} :
                    \A i \in 1..Len(reqs) : t <= reqs[i]

\* calls started and not yet recorded or rejected
Active == {c \in Callers : rl_pc[c] \notin {"idle", "returned"}}

\* what the HTTP exchange of a call can be: a 2xx response with a valid
\* record, a 404, another error status, a transport failure or timeout, a 2xx
\* response whose body is not JSON, whose JSON is not an object, or whose
\* record does not validate
Responses == {"ok", "404", "500", "transport", "not_json", "not_object",
              "invalid_record"}

\* one caller: both methods, every response
OneCaller == [callers |-> {"c1"}, responses |-> Responses, max_sends |-> MaxSends]

\* several callers: the responses play no part in the limiter
SharedLimiter == [callers |-> Callers, responses |-> {"ok"},
                  max_sends |-> MaxSharedSends]

NoCall == [call |-> "-", response |-> "-", result |-> "-"]

\* CrossRefClient.get_article_by_doi, lines 132-138, and search_articles,
\* line 179: an invalid DOI raises ValueError before the rate limiter is
\* consulted; otherwise _wait_for_rate_limit is entered
ClientCall(c, I, call, doi) ==
    /\ rl_pc[c] = "idle"
    /\ Len(sent) + Cardinality(Active) < I.max_sends
    /\ rl_wait' = [rl_wait EXCEPT ![c] = 0]
    /\ IF _clean_doi(doi) = None
       THEN UNCHANGED <<rl_pc, rl_out>>
       ELSE /\ rl_pc' = [rl_pc EXCEPT ![c] = "can_make_request"]
            /\ rl_out' = [rl_out EXCEPT ![c] = [NoCall EXCEPT !.call = call]]
    /\ UNCHANGED <<now, requests, sent>>
    /\ UNCHANGED nonrlvars

get_article_by_doi(c, I) ==
    \E doi \in {DoiA, DoiAPrefixed, NotADoi} : ClientCall(c, I, "get", doi)

search_articles(c, I) == ClientCall(c, I, "search", DoiA)

\* RateLimiter.can_make_request, called from wait_time (line 59)
can_make_request(c) ==
    /\ rl_pc[c] = "can_make_request"
    /\ UNCHANGED nonrlvars
    /\ requests' = Prune(requests, now - TimeWindow)
    /\ rl_pc' = [rl_pc EXCEPT ![c] =
                    IF HasBudget(requests') THEN "record_request" ELSE "wait_time"]
    /\ UNCHANGED <<now, sent, rl_wait, rl_out>>

\* RateLimiter.wait_time, lines 62-72, with its own reading of the clock
wait_time(c) ==
    /\ rl_pc[c] = "wait_time"
    /\ UNCHANGED nonrlvars
    /\ LET wait_until == Oldest(requests) + TimeWindow
           wait == IF requests = <<>> \/ wait_until <= now THEN 0
                   ELSE wait_until - now
       IN  /\ rl_wait' = [rl_wait EXCEPT ![c] = wait]
           /\ rl_pc' = [rl_pc EXCEPT ![c] =
                           IF wait > 0 THEN "sleep" ELSE "record_request"]
    /\ UNCHANGED <<now, requests, sent, rl_out>>

\* the wait timed out: the call gives up without sending
sleep_timed_out(c) ==
    /\ rl_pc[c] = "sleep"
    /\ UNCHANGED nonrlvars
    /\ rl_pc' = [rl_pc EXCEPT ![c] = "idle"]
    /\ UNCHANGED <<now, requests, sent, rl_wait, rl_out>>

\* CrossRefClient._wait_for_rate_limit: time.sleep(wait_time) returns once
\* at least wait_time has passed
sleep(c) ==
    /\ rl_pc[c] = "sleep"
    /\ UNCHANGED nonrlvars
    /\ \E t \in (now + rl_wait[c]) .. (IF now + rl_wait[c] > MaxTime
                                       THEN now + rl_wait[c] ELSE MaxTime) :
        now' = t
    /\ rl_pc' = [rl_pc EXCEPT ![c] = "record_request"]
    /\ UNCHANGED <<requests, sent, rl_wait, rl_out>>

\* get_article_by_doi, lines 145-159: what the call returns or raises for
\* the HTTP exchange.  httpx.HTTPStatusError, transport errors and timeouts
\* are httpx.HTTPError; json.JSONDecodeError (raised by response.json()) and
\* AttributeError (data.get on a value that is no dict) are neither
\* httpx.HTTPError nor pydantic's ValidationError
get_article_result(response) ==
    CASE response = "ok" -> "CrossRefResponse"
      [] response = "404" -> "None"
      [] response = "500" -> "httpx.HTTPError"
      [] response = "transport" -> "httpx.HTTPError"
      [] response = "not_json" -> "json.JSONDecodeError"
      [] response = "not_object" -> "AttributeError"
      [] OTHER -> "httpx.HTTPError"

\* search_articles, lines 192-211: invalid items are skipped, every
\* httpx.HTTPError (a 404 included) is raised again as httpx.HTTPError
search_articles_result(response) ==
    CASE response \in {"ok", "invalid_record"} -> "list"
      [] response \in {"404", "500", "transport"} -> "httpx.HTTPError"
      [] response = "not_json" -> "json.JSONDecodeError"
      [] OTHER -> "AttributeError"

\* RateLimiter.record_request (lines 144 and 191), then the HTTP request and
\* the handling of its response
record_request(c, I) ==
    /\ rl_pc[c] = "record_request"
    /\ UNCHANGED nonrlvars
    /\ requests' = Append(requests, now)
    /\ sent' = Append(sent, now)
    /\ rl_pc' = [rl_pc EXCEPT ![c] = "returned"]
    /\ \E response \in I.responses :
          rl_out' = [rl_out EXCEPT ![c].response = response,
                        ![c].result = IF rl_out[c].call = "get"
                                      THEN get_article_result(response)
                                      ELSE search_articles_result(response)]
    /\ UNCHANGED <<now, rl_wait>>

\* the caller takes the outcome
ClientReturn(c) ==
    /\ rl_pc[c] = "returned"
    /\ UNCHANGED nonrlvars
    /\ rl_pc' = [rl_pc EXCEPT ![c] = "idle"]
    /\ rl_out' = [rl_out EXCEPT ![c] = NoCall]
    /\ UNCHANGED <<now, requests, sent, rl_wait>>

\* time passes
Tick ==
    /\ now < MaxTime
    /\ now' = now + 1
    /\ UNCHANGED <<requests, sent, rl_pc, rl_wait, rl_out>>
    /\ UNCHANGED nonrlvars

ClientStep(c, I) ==
    \/ get_article_by_doi(c, I)
    \/ search_articles(c, I)
    \/ can_make_request(c)
    \/ wait_time(c)
    \/ sleep(c)
    \/ record_request(c, I)
    \/ ClientReturn(c)

\* one caller uses the client
NextRate == (\E c \in OneCaller.callers : ClientStep(c, OneCaller)) \/ Tick

SpecRate == Init /\ [][NextRate]_vars

\* several callers (threads) share the client and its rate limiter; the
\* statements of their calls interleave
NextRateRace ==
    (\E c \in SharedLimiter.callers : ClientStep(c, SharedLimiter)) \/ Tick

SpecRateRace == Init /\ [][NextRateRace]_vars

\* a thread inside a call keeps running: every statement of the call is
\* executed in the end and time.sleep returns
InCall(c) ==
    \/ can_make_request(c)
    \/ wait_time(c)
    \/ sleep(c)
    \/ record_request(c, SharedLimiter)
    \/ ClientReturn(c)

SpecRateLive ==
    /\ Init
    /\ [][NextRateRace]_vars
    /\ \A c \in Callers : WF_vars(InCall(c))


\* ------------------------------------------------------------------------
\* Properties
\* ------------------------------------------------------------------------

Done(p) == pc[p] = "done"

IsService(p) == req[p].entry \in {"svc_fetch", "svc_direct"}

\* the call returned a structured registration result
Returned(p, status) == out[p].kind = "result" /\ out[p].status = status

\* an already-exists outcome, or an error that reports the duplicate
AlreadyExistsOutcome(o) ==
    \/ o.kind = "result" /\ o.status = "already_exists"
    \/ o.kind = "response" /\ o.operation_type = "existed"
    \/ /\ o.kind = "http_error"
       /\ o.status = "400"
       /\ Len(o.message) = 3
       /\ o.message[3] = " already exists"

\* the call of p has added no row to the tables (one caller at a time)
NothingCreated(p) ==
    /\ Len(articles) = pre[p].n_articles
    /\ author_seq = pre[p].author_seq

\* the article and author data of the call were available
DataAvailable(p) == req[p].entry = "svc_direct" \/ loc[p].fetched = "found"

\* C1: the store holds at most one article row per normalized DOI, and a
\* registration (service or endpoint, the store answering) of a DOI whose
\* normalized form is stored creates nothing and ends with an already-exists
\* outcome or an error that reports the duplicate.
C1_OneArticlePerDoi ==
    /\ \A i, j \in 1..Len(articles) :
          _clean_doi(articles[i].doi) = _clean_doi(articles[j].doi) => i = j
    /\ \A p \in Procs :
          Done(p) /\ pre[p].stored /\ eff[p].faults = 0
              => AlreadyExistsOutcome(out[p]) /\ NothingCreated(p)

\* a second direct registration of a stored DOI has returned already_exists
C1_Witness ==
    \E p \in Procs :
        /\ Done(p)
        /\ req[p].entry = "svc_direct"
        /\ pre[p].stored
        /\ Returned(p, "already_exists")
        /\ Cardinality(RowsOf(loc[p].clean_doi)) = 1

\* C2: two service registrations of the same DOI, not stored when either of
\* them started, that overlap in time and whose data are available end with
\* exactly one success, the other a clean already-exists outcome, and exactly
\* one article row for the DOI.
C2_ConcurrentRegistration ==
    \A p, q \in Procs :
        ( /\ p # q
          /\ Done(p) /\ Done(q)
          /\ IsService(p) /\ IsService(q)
          /\ q \in pre[p].running
          /\ loc[p].clean_doi # None
          /\ loc[p].clean_doi = loc[q].clean_doi
          /\ ~pre[p].stored /\ ~pre[q].stored
          /\ DataAvailable(p) /\ DataAvailable(q)
          /\ eff[p].faults = 0 /\ eff[q].faults = 0 )
        => /\ \/ Returned(p, "success") /\ AlreadyExistsOutcome(out[q])
              \/ Returned(q, "success") /\ AlreadyExistsOutcome(out[p])
           /\ Cardinality(RowsOf(loc[p].clean_doi)) = 1

\* C3: when ArticleCRUD.create of an article with authors fails while
\* persisting, the call leaves no new article row and no new author row.
C3_AtomicCreate ==
    \A p \in Procs :
        ( /\ Done(p)
          /\ loc[p].authors_data # <<>>
          /\ loc[p].exc \in {"OperationalError", "IntegrityError"} )
        => NothingCreated(p)

\* the rows with the given names among the authors of the article rows of doi
LinkedAuthors(doi) ==
    {<<i, k>> \in (1..Len(articles)) \X (1..Len(authors)) :
        /\ articles[i].doi = doi
        /\ \E n \in 1..Len(articles[i].authors) :
              articles[i].authors[n] = authors[k].id}

\* C4: the direct registration of the new DOI 10.1/a with the one author
\* Jane Doe (the store answering) returns success / created / direct and
\* leaves exactly one article row for the DOI, linked to exactly one author,
\* Jane Doe.
C4_DirectRegistration ==
    \A p \in Procs :
        ( /\ Done(p)
          /\ req[p].entry = "svc_direct"
          /\ req[p].raw = DoiA
          /\ req[p].authors = <<Jane>>
          /\ ~pre[p].stored
          /\ eff[p].faults = 0 )
        => /\ Returned(p, "success")
           /\ out[p].operation_type = "created"
           /\ out[p].source = "direct"
           /\ Cardinality(RowsOf(DoiA)) = 1
           /\ Cardinality(LinkedAuthors(DoiA)) = 1
           /\ \A ik \in LinkedAuthors(DoiA) :
                 /\ authors[ik[2]].first_name = "Jane"
                 /\ authors[ik[2]].last_name = "Doe"

\* C5: a service registration (fetch mode or direct mode) of a raw DOI that
\* fails normalization returns status error with the invalid-DOI message and
\* calls neither the external client nor the store.
C5_InvalidDoiRejected ==
    \A p \in Procs :
        Done(p) /\ IsService(p) /\ _clean_doi(req[p].raw) = None
            => /\ Returned(p, "error")
               /\ out[p].message = <<"Invalid DOI format">>
               /\ eff[p] = NoEff

\* C6: a registration (service, or fetch mode of the endpoint; the store
\* answering) of a DOI whose normalized form is stored does not call the
\* external client, creates or changes no row, reports operation_type
\* existed and source database, and invokes the file downloader exactly when
\* download_files was requested.
C6_ExistingArticle ==
    \A p \in Procs :
        ( /\ Done(p)
          /\ req[p].entry \in {"svc_fetch", "svc_direct", "ep_fetch"}
          /\ pre[p].stored
          /\ eff[p].faults = 0 )
        => /\ eff[p].crossref = 0
           /\ eff[p].writes = 0
           /\ NothingCreated(p)
           /\ out[p].operation_type = "existed"
           /\ out[p].source = "database"
           /\ (eff[p].engine > 0) <=> req[p].download_files

\* C7: a fetch-mode service registration whose external lookup reports
\* not-found ends with status not_found; one whose external lookup raises
\* ends with status error, source crossref and the cause in the message; in
\* both cases nothing is persisted.
C7_FetchFailure ==
    \A p \in Procs :
        ( /\ Done(p)
          /\ req[p].entry = "svc_fetch"
          /\ loc[p].fetched \in {"not_found", "error"} )
        => /\ out[p].kind = "result"
           /\ loc[p].fetched = "not_found" => out[p].status = "not_found"
           /\ loc[p].fetched = "error" =>
                 /\ out[p].status = "error"
                 /\ out[p].source = "crossref"
                 /\ out[p].message[2] = "HTTPError"
           /\ NothingCreated(p)

\* C8: a service registration of a new DOI whose data are available (the
\* store answering) with download_files and explicit file URLs ends, whatever
\* the file downloader does, with status success, the article persisted and
\* the download attempt reported in download_status.
C8_DownloadAfterCommit ==
    \A p \in Procs :
        ( /\ Done(p)
          /\ IsService(p)
          /\ ~pre[p].stored
          /\ DataAvailable(p)
          /\ req[p].download_files
          /\ req[p].file_urls = "explicit"
          /\ eff[p].faults = 0 )
        => /\ Returned(p, "success")
           /\ RowsOf(loc[p].clean_doi) # {}
           /\ out[p].download_status.attempted

\* C9: every call of register_article_from_doi and of
\* register_article_with_data (its argument constructed) ends by returning a
\* result with one of the four statuses and a message; no exception leaves
\* the entry point.
C9_NoExceptionEscapes ==
    \A p \in Procs :
        ( /\ Done(p)
          /\ IsService(p)
          /\ ~(req[p].entry = "svc_direct" /\ loc[p].clean_doi = None) )
        => /\ out[p].kind = "result"
           /\ out[p].status \in {"success", "already_exists", "not_found", "error"}
           /\ out[p].message # <<>>

\* the requests recorded in the window (t - TimeWindow, t]
InWindow(t) == {i \in 1..Len(sent) : t - TimeWindow < sent[i] /\ sent[i] <= t}

\* C10: with one caller at a time, no window of length TimeWindow (open at
\* its start, as the limiter's cutoff is) holds more than MaxRequests
\* recorded requests; it is enough to look at the windows that end at a
\* recorded request.
C10_RateLimit ==
    \A i \in 1..Len(sent) : Cardinality(InWindow(sent[i])) <= MaxRequests

\* C11: with several callers sharing the rate limiter, at no time t does the
\* window (t - TimeWindow, t] hold more than MaxRequests recorded requests.
C11_SharedRateLimit ==
    \A t \in 0..(MaxTime + MaxSharedSends * TimeWindow) :
        Cardinality(InWindow(t)) <= MaxRequests

\* C12: the wait a caller is told is at most TimeWindow, and a caller that
\* sleeps in _wait_for_rate_limit goes on to record and send its request.
C12_BlockedCallerProceeds ==
    /\ [](\A c \in Callers : rl_wait[c] <= TimeWindow)
    /\ \A c \in Callers : (rl_pc[c] = "sleep") ~> (rl_pc[c] = "record_request")

\* a caller that was told to wait is asleep while another caller is in a call
C12_Witness ==
    \E c, d \in Callers :
        /\ c # d
        /\ rl_pc[c] = "sleep"
        /\ rl_wait[c] > 0
        /\ rl_pc[d] # "idle"

\* C13: a call of get_article_by_doi with a valid DOI returns None exactly
\* when the response is a 404, and ends every other failed exchange (another
\* error status, a transport failure, a body that is not JSON, is no object
\* or holds no valid record) by raising httpx.HTTPError.
C13_GetArticleOutcomes ==
    \A c \in Callers :
        rl_pc[c] = "returned" /\ rl_out[c].call = "get"
            => /\ (rl_out[c].result = "None") <=> (rl_out[c].response = "404")
               /\ rl_out[c].response \notin {"ok", "404"}
                     => rl_out[c].result = "httpx.HTTPError"

\* the rows of a table of authors that get_or_create takes for the author:
\* those with the author's ORCID or, when there is none, those with the
\* author's first and last name
C15_Same(table, author) ==
    LET by_orcid == {i \in 1..Len(table) :
                        author.orcid # "None" /\ table[i].orcid = author.orcid}
        by_name == {i \in 1..Len(table) :
                        /\ table[i].first_name = author.first_name
                        /\ table[i].last_name = author.last_name}
    IN  {table[i].id : i \in (IF by_orcid # {} THEN by_orcid ELSE by_name)}

\* C14: ArticleCRUD.delete of a stored article leaves no row of the article,
\* none of the compounds it had and none of their properties, and the authors
\* table as it was; CompoundCRUD.delete of a stored compound leaves no row of
\* the compound and none of its properties, and its article stays stored.
C14_DeleteCascade ==
    /\ last.at = calls /\ last.op = "ArticleCRUD.delete" /\ last.result = "True"
        => /\ RowsOf(last.doi) = {}
           /\ \A i \in 1..Len(compounds) :
                 compounds[i].id \notin last.compound_ids /\ compounds[i].article_doi # last.doi
           /\ \A i \in 1..Len(properties) :
                 /\ properties[i].id \notin last.property_ids
                 /\ properties[i].compound_id \notin last.compound_ids
           /\ authors = last.authors
    /\ last.at = calls /\ last.op = "CompoundCRUD.delete" /\ last.result = "True"
        => /\ CompoundRows(last.id) = {}
           /\ \A i \in 1..Len(properties) :
                 /\ properties[i].id \notin last.property_ids
                 /\ properties[i].compound_id # last.id
           /\ RowsOf(last.doi) # {}

\* an article with an author, a compound and a property of the compound has
\* been deleted
C14_Witness ==
    /\ last.at = calls /\ last.op = "ArticleCRUD.delete" /\ last.result = "True"
    /\ last.compound_ids # {}
    /\ last.property_ids # {}
    /\ last.authors # <<>>

\* C15: a call of AuthorCRUD.get_or_create made when the store holds a row
\* with the author's ORCID or, failing that, with the author's names returns
\* one of these rows and leaves the authors table as it was; a row that a
\* running ArticleCRUD.create has added matches no row that was there before
\* it, and each author of the article it stores is linked to a row that was
\* there before the call whenever a matching one was.
C15_AuthorsReused ==
    /\ last.at = calls /\ last.op = "AuthorCRUD.get_or_create"
          /\ C15_Same(last.authors, last.author) # {}
        => /\ authors = last.authors
           /\ last.id \in C15_Same(last.authors, last.author)
    /\ \A p \in Procs :
        req[p].entry = "crud_create"
        => /\ \A i \in 1..Len(authors) :
                 authors[i].id > pre[p].author_seq
                     => C15_Same(SelectSeq(authors, LAMBDA row : row.id < authors[i].id),
                                 authors[i]) = {}
           /\ \A n \in 1..Len(loc[p].linked) :
                 LET before == SelectSeq(authors, LAMBDA row : row.id <= pre[p].author_seq)
                     same == C15_Same(before, loc[p].authors_data[n])
                 IN  same # {} => loc[p].linked[n] \in same

\* get_or_create has returned a row it found, and an article has then been
\* created with an author who was already stored
C15_Witness ==
    /\ last.op = "AuthorCRUD.get_or_create"
    /\ last.id \in C15_Same(last.authors, last.author)
    /\ \E p \in Procs :
        /\ req[p].entry = "crud_create"
        /\ pc[p] = "cr_returned"
        /\ \E n \in 1..Len(loc[p].linked) : loc[p].linked[n] <= pre[p].author_seq

\* C16: the link rows of a stored article hold the positions of the authors
\* in the list the article was created with (counted from one or from zero).
C16_AuthorOrder ==
    \A i \in 1..Len(articles) :
        \/ \A n \in 1..Len(articles[i].authors) : articles[i].author_order[n] = n
        \/ \A n \in 1..Len(articles[i].authors) : articles[i].author_order[n] = n - 1


\* the results of the multi-file download that has just ended, by outcome
C17_Results(success) ==
    {i \in 1..Len(multi.results) : multi.results[i].result.success = success}

\* C17: a multi-file download (download_multiple_files or download_from_urls)
\* that has ended holds one result per requested file, a file is reported as
\* downloaded exactly when the server serves its URL, and every file reported
\* as downloaded is stored; for pdf + html + two supplementary URLs of which
\* the last fails these are three successes and one failure.
C17_PartialSuccess ==
    dl_pc = "multi_returned"
    => /\ Len(multi.results) = Len(multi.requested)
       /\ \A n \in 1..Len(multi.requested) :
            \E i \in 1..Len(multi.results) :
                /\ multi.results[i].url = multi.requested[n].url
                /\ multi.results[i].result.success
                       <=> (multi.requested[n].url.serves.status = "200")
       /\ \A i \in C17_Results(TRUE) :
            FileAt(multi.results[i].result.file_path[1],
                   multi.results[i].result.file_path[2]) # {}
       /\ [n \in 1..Len(multi.requested) |-> multi.requested[n].url]
              = [n \in 1..Len(ExampleDownloads) |-> ExampleDownloads[n].url]
          => Cardinality(C17_Results(TRUE)) = 3 /\ Cardinality(C17_Results(FALSE)) = 1

\* a download_file call that got a 200 response has returned
C18_Streamed ==
    /\ dl_pc = "dl_returned"
    /\ Len(http_log) > dl_call.pre_log
    /\ dl_call.url.serves.status = "200"

\* C18: a download_file call whose response body is larger than MaxFileSize
\* returns success=False with an error and leaves no file at the target
\* path; one whose body is within MaxFileSize returns success=True and the
\* file at the target path holds the body.
C18_SizeLimit ==
    C18_Streamed
    => LET target == FileAt(dl_call.file_type, dl_call.safe_filename)
           body == dl_call.url.serves.body
       IN  IF body > MaxFileSize
           THEN /\ ~dl_call.result.success
                /\ dl_call.result.error # "-"
                /\ target = {}
           ELSE /\ dl_call.result.success
                /\ \E f \in target : f.size = body

\* the name download_file takes the extension from: the filename argument
\* or, without one, the name found in the URL
C19_Name ==
    IF dl_call.filename = <<>> THEN _extract_filename_from_url(dl_call.url)
    ELSE dl_call.filename

\* the arguments of the download_file call that has returned are refused:
\* the scheme is not http or https, or the extension is not allowed
C19_Refused ==
    /\ dl_pc = "dl_returned"
    /\ \/ dl_call.url.scheme \notin {"http", "https"}
       \/ Lower(PathSuffix(C19_Name)) \notin allowed_extensions(dl_call.file_type)

C20_AutoDiscovery ==
    \A p \in Procs :
        ( /\ Done(p)
          /\ IsService(p)
          /\ out[p].kind = "result"
          /\ req[p].download_files
          /\ req[p].file_urls \in {"none", "empty"}
          /\ eff[p].faults = 0
          /\ loc[p].clean_doi # None
          /\ RowsOf(loc[p].clean_doi) # {} )
        => /\ eff[p].engine > 0
           /\ out[p].download_status.present
           /\ out[p].download_status.attempted
           /\ out[p].download_status.download_method = "automatic"

\* C29: every compound row names a stored article and every property row a
\* stored compound; a CompoundCRUD.create whose article is not stored, and a
\* CompoundPropertyCRUD.create whose compound is not stored, raise an error
\* and leave the compounds and the properties as they were.
C29_ParentsExist ==
    /\ \A i \in 1..Len(compounds) :
          \E j \in 1..Len(articles) : articles[j].doi = compounds[i].article_doi
    /\ \A i \in 1..Len(properties) :
          \E j \in 1..Len(compounds) : compounds[j].id = properties[i].compound_id
    /\ last.at = calls /\ last.op = "CompoundCRUD.create"
          /\ (\A j \in 1..Len(articles) : articles[j].doi # last.doi)
        => /\ last.result \in {"ValueError", "IntegrityError"}
           /\ {compounds[i].id : i \in 1..Len(compounds)} = last.compound_ids
           /\ {properties[i].id : i \in 1..Len(properties)} = last.property_ids
    /\ last.at = calls /\ last.op = "CompoundPropertyCRUD.create"
          /\ last.id \notin last.compound_ids
        => /\ last.result = "ValueError"
           /\ {compounds[i].id : i \in 1..Len(compounds)} = last.compound_ids
           /\ {properties[i].id : i \in 1..Len(properties)} = last.property_ids

\* a property of a compound that does not exist has been refused while the
\* store holds a compound with a property
C29_Witness ==
    /\ last.at = calls /\ last.op = "CompoundPropertyCRUD.create"
    /\ last.result = "ValueError"
    /\ compounds # <<>>
    /\ properties # <<>>

\* C30: an ArticleCRUD.create (the store answering, the DOI not stored) whose
\* author list holds two entries that resolve to one author row ends by
\* storing the article, with that author linked to it once.
C30_DuplicateAuthor ==
    \A p \in Procs :
        ( /\ req[p].entry = "crud_create"
          /\ pc[p] \in {"cr_returned", "cr_raised"}
          /\ eff[p].faults = 0
          /\ ~pre[p].stored
          /\ Len(loc[p].linked) = Len(loc[p].authors_data)
          /\ HasDuplicates(loc[p].linked) )
        => /\ pc[p] = "cr_returned"
           /\ \E i \in 1..Len(articles) :
                /\ articles[i].doi = loc[p].article_doi
                /\ ~HasDuplicates(articles[i].authors)
                /\ \A n \in 1..Len(loc[p].linked) :
                      \E k \in 1..Len(articles[i].authors) :
                          articles[i].authors[k] = loc[p].linked[n]

\* C25: _clean_doi returns None or a value that starts with "10.", is
\* trimmed and in lower case, and is the trimmed, lowered input or that input
\* without the first prefix of the list that it starts with; applied to a
\* value it returned it returns the same value; the empty string, None and
\* not-a-doi give None, and HTTPS://DOI.ORG/10.1000/Test gives 10.1000/test.
C25_Normalization ==
    conv.op \in {"_clean_doi", "_clean_doi again"}
    => LET x == conv.input
           y == conv.output
           t == Lower(Strip(x))
       IN  /\ x \in {None, <<>>, NotADoi} => y = None
           /\ x = <<"H","T","T","P","S",":","/","/","D","O","I",".","O","R","G","/",
                    "1","0",".","1","0","0","0","/","T","e","s","t">>
                 => y = <<"1","0",".","1","0","0","0","/","t","e","s","t">>
           /\ y # None
                 => /\ StartsWith(y, TenDot)
                    /\ y = Strip(y)
                    /\ y = Lower(y)
                    /\ \/ y = t
                       \/ \E i \in 1..Len(prefixes) :
                            /\ t = prefixes[i] \o y
                            /\ \A j \in 1..(i - 1) : ~StartsWith(t, prefixes[j])
           /\ conv.op = "_clean_doi again" => conv.again = y

\* a raw DOI with white space, capitals and a prefix has been normalized and
\* the result normalized again
C25_Witness ==
    /\ conv.op = "_clean_doi again"
    /\ conv.input # Strip(conv.input)
    /\ Strip(conv.input) # Lower(Strip(conv.input))
    /\ Len(conv.output) < Len(Strip(conv.input))

\* C28: a request to the unified endpoint with fetch_from_crossref set and an
\* article_data whose DOI differs from request.doi (no article stored, the
\* store answering) creates the article under article_data's DOI, answers with
\* source direct, and does not contact CrossRef.
C28_ConflictingOptions ==
    \A p \in Procs :
        ( /\ Done(p)
          /\ req[p].entry = "ep_fetch"
          /\ req[p].article_data # None
          /\ req[p].article_data # loc[p].clean_doi
          /\ loc[p].clean_doi # None
          /\ pre[p].n_articles = 0
          /\ eff[p].faults = 0 )
        => /\ eff[p].crossref = 0
           /\ out[p].kind = "response"
           /\ out[p].source = "direct"
           /\ out[p].article = req[p].article_data
           /\ get_by_doi(req[p].article_data) # <<>>

\* C26: after a fetch-mode registration (service or endpoint) of a raw DOI
\* that found an external record and ended successfully, an article is stored
\* under the normalized raw DOI and it is the article of the answer, whatever
\* DOI value the external record carries.
C26_PersistedDoi ==
    \A p \in Procs :
        ( /\ Done(p)
          /\ req[p].entry \in {"svc_fetch", "ep_fetch"}
          /\ loc[p].fetched = "found"
          /\ \/ out[p].kind = "response"
             \/ out[p].kind = "result" /\ out[p].status = "success" )
        => /\ get_by_doi(_clean_doi(req[p].raw)) # <<>>
           /\ out[p].article = _clean_doi(req[p].raw)

\* C23: for a DOI whose lower case starts with 10.1039/ and whose segment
\* after it has at least 4 characters the lookup returns the positional rule
\* whose code is the characters at index 2-3 of the segment; for any other DOI
\* it returns the first rule in table order whose pattern is a prefix of the
\* lower-cased DOI; when no rule matches it returns none (10.1039/d5xx00519a,
\* 10.1000/unknown), and 10.1039/d5ob00519a gives Org. Biomol. Chem.
C23_JournalLookup ==
    conv.op = "get_journal_info"
    => LET T == JOURNAL_MAPPINGS
           d == IF conv.input = None THEN <<>> ELSE Lower(conv.input)
           seg == SubSeq(d, 9, Len(d))
           rsc == StartsWith(d, <<"1","0",".","1","0","3","9","/">>)
           positional == {i \in 1..Len(T) :
                            /\ rsc
                            /\ Len(seg) >= 4
                            /\ SubSeq(T[i].pattern, 1, 10) = <<"1","0",".","1","0","3","9","/",".",".">>
                            /\ SubSeq(T[i].pattern, 11, 12) = <<seg[3], seg[4]>>}
           prefix == {i \in 1..Len(T) : ~rsc /\ StartsWith(d, T[i].pattern)}
           found == conv.output # <<>>
       IN  /\ \A i \in positional :
                 found /\ conv.output[1].short_name = T[i].short_name
                       /\ conv.output[1].full_name = T[i].full_name
           /\ \A i \in prefix :
                 (\A j \in prefix : i <= j)
                 => found /\ conv.output[1].short_name = T[i].short_name
                          /\ conv.output[1].full_name = T[i].full_name
           /\ positional = {} /\ prefix = {} => ~found
           /\ conv.input \in {<<"1","0",".","1","0","3","9","/","d","5","x","x","0","0","5","1","9","a">>, <<"1","0",".","1","0","0","0","/","u","n","k","n","o","w","n">>} => ~found
           /\ conv.input = <<"1","0",".","1","0","3","9","/","d","5","o","b","0","0","5","1","9","a">>
                 => found /\ conv.output[1].short_name = "Org. Biomol. Chem."
           /\ conv.mapper = conv.output
           /\ conv.unloaded = <<>>

\* a 10.1039/ DOI written in capitals has been looked up and the rule of its
\* journal code returned
C23_Witness ==
    /\ conv.op = "get_journal_info"
    /\ conv.input # Lower(conv.input)
    /\ StartsWith(conv.input, <<"1","0",".","1","0","3","9","/">>)
    /\ conv.output # <<>>
    /\ conv.output[1].full_name = "Organic & Biomolecular Chemistry"

\* C22: the year of the article converted from an external record is the
\* first component of the first date-parts entry of the first of the fields
\* published, published_online, issued, published_print, created that holds
\* one (and none when no field does): with only published_online set its year
\* is used, and published is preferred to published_online.
C22_YearPriority ==
    conv.op = "_convert_crossref_to_article"
    => LET work == conv.input
           fields == <<work.published, work.published_online, work.issued,
                       work.published_print, work.created>>
           holds(i) == /\ fields[i].present
                       /\ fields[i].date_parts # <<>>
                       /\ fields[i].date_parts[1] # <<>>
       IN  /\ \A i \in 1..5 :
                 (holds(i) /\ \A j \in 1..(i - 1) : ~holds(j))
                 => conv.output.year = <<fields[i].date_parts[1][1]>>
           /\ (\A i \in 1..5 : ~holds(i)) => conv.output.year = <<>>

\* the text without its tags: every "<" up to the next ">" is left out
RECURSIVE C27_Untagged(_, _)
C27_Untagged(s, inside) ==
    IF s = <<>> THEN <<>>
    ELSE IF Head(s) = "<" THEN C27_Untagged(Tail(s), TRUE)
    ELSE IF Head(s) = ">" THEN C27_Untagged(Tail(s), FALSE)
    ELSE IF inside THEN C27_Untagged(Tail(s), inside)
    ELSE <<Head(s)>> \o C27_Untagged(Tail(s), inside)

\* C27: the abstract of the article converted from an external record is
\* None when the record has none, and otherwise the record's abstract with
\* every angle-bracket tag removed and the text trimmed:
\* <jats:p>A<jats:sub>2</jats:sub>B</jats:p> becomes A2B.
C27_AbstractCleaned ==
    conv.op = "_convert_crossref_to_article"
    => /\ conv.input.abstract = None => conv.output.abstract = None
       /\ conv.input.abstract # None
             => conv.output.abstract = Strip(C27_Untagged(conv.input.abstract, FALSE))

\* C24: after a fetch-mode registration (service or endpoint) that found an
\* external record under the registered DOI and ended successfully, the stored
\* journal is the record's container title when it has a genuine one, and the
\* full name of the journal rule of the DOI when the record has none (or the
\* placeholder) and a rule matches.
C24_JournalBackfill ==
    \A p \in Procs :
        ( /\ Done(p)
          /\ req[p].entry \in {"svc_fetch", "ep_fetch"}
          /\ loc[p].fetched = "found"
          /\ loc[p].article_doi = loc[p].clean_doi
          /\ loc[p].created
          /\ \/ out[p].kind = "response"
             \/ out[p].kind = "result" /\ out[p].status = "success" )
        => LET row == get_by_doi(loc[p].clean_doi)
               rule == get_journal_info(loc[p].clean_doi)
           IN  /\ row # <<>>
               /\ loc[p].journal \notin {"None", "Unknown Title"}
                     => row[1].journal = loc[p].journal
               /\ (loc[p].journal \in {"None", "Unknown Title"} /\ rule # <<>>)
                     => row[1].journal = rule[1].full_name

\* the attempts of one stage of the running auto-discovery
C21_Tried(stage) == SelectSeq(ad.tried, LAMBDA t : t.stage = stage)

\* C21: when auto-discovery returns and the publisher's pattern gave no
\* successful PDF download (no publisher matched, no URL was produced, or the
\* attempt failed), the generic rewrites that change the article URL have been
\* tried in their order up to the first success, and when none of them
\* succeeded the last attempt made is the DOI resolver URL of the DOI.
C21_Fallbacks ==
    ( /\ ad.pc = "returned"
      /\ ad.url # None
      /\ \A n \in 1..Len(ad.tried) :
            ~(ad.tried[n].stage = "publisher_pdf" /\ ad.tried[n].ok) )
    => LET all == pdf_patterns(ad.url)
           changed == SelectSeq(all, LAMBDA u : u # ad.url)
           generic == C21_Tried("generic")
           final == ad.tried[Len(ad.tried)]
       IN  /\ Len(generic) <= Len(changed)
           /\ \A n \in 1..Len(generic) :
                 /\ generic[n].url = changed[n]
                 /\ n < Len(generic) => ~generic[n].ok
           /\ \/ Len(generic) = Len(changed)
              \/ generic # <<>> /\ generic[Len(generic)].ok
           /\ (\A n \in 1..Len(generic) : ~generic[n].ok)
                 => /\ ad.tried # <<>>
                    /\ final.stage = "doi_org"
                    /\ final.url = DoiOrgHttps \o ad.doi

\* a call has slept for a positive wait_time and then recorded its request,
\* with more requests recorded than one window allows
C10_Witness ==
    \E c \in Callers :
        /\ rl_pc[c] = "returned"
        /\ rl_wait[c] > 0
        /\ Len(sent) > MaxRequests
        /\ sent[Len(sent)] = now

====
